---- MODULE Spec2Model ----
(***************************************************************************)
(* SpotLinkIO backend: the SQL-backed models (internal/data) and the QR     *)
(* code service, as a state machine over the database tables.  Every SQL    *)
(* statement is one atomic step; a model method that issues several         *)
(* statements is several steps of the calling request, with the request's   *)
(* position kept in pc.                                                     *)
(***************************************************************************)
EXTENDS Bags, FiniteSets, Integers, Sequences, TLC

\* ------------------------------------------------------------- bounds
MaxClock == 4      \* the logical clock stops here (bounds the run)
MaxRows  == 2      \* rows ever inserted into one table
NProcs   == 2      \* requests inside a multi-statement method at once
MaxName  == 2      \* characters in a requested file name
MaxBatch == 2      \* rows handed to one bulk insert

Procs == 1..NProcs

\* ------------------------------------------------------------- values
NULL == 0          \* SQL NULL / Go nil pointer; real times are >= 1

OK                       == "nil"
ErrRecordNotFound        == "record not found"
ErrEditConflict          == "edit conflict"
ErrDuplicateLicensePlate == "duplicate license plate"
ErrDuplicateEmail        == "duplicate email"
ErrNoRows                == "sql: no rows in result set"
ErrUniqueViolation       == "pq: duplicate key value violates unique constraint"

ReservationStatusPending   == "pending"
ReservationStatusConfirmed == "confirmed"
ReservationStatusActive    == "active"
ReservationStatusCompleted == "completed"
ReservationStatusCancelled == "cancelled"
ReservationStatusExpired   == "expired"

PaymentStatusPending   == "pending"
PaymentStatusCompleted == "completed"
PaymentStatusFailed    == "failed"

SessionStatusActive    == "active"
SessionStatusCompleted == "completed"
SessionStatusViolated  == "violated"

VersionedTables == {"users", "vehicles", "parking_lots", "parking_spots",
                    "reservations", "payments", "parking_sessions", "reviews"}
Tables == VersionedTables \cup {"qr_codes", "notifications"}

UserIds == {1, 2}
Issuers == {1}        \* the users whose requests reach the QR code service
Emails  == {"a@x", "b@x"}
Names   == {"ann", "bob"}
Plates  == {"P1", "P2"}

VARIABLES
  scope,    \* the tables this run exercises
  db,       \* db[t]: the rows of table t, a function from the ids present
  nextId,   \* nextId[t]: the id the next INSERT into t generates
  now,      \* the database clock (CURRENT_TIMESTAMP of the last statement)
  pc,       \* pc[p]: where request p stands inside a multi-statement method
  call,     \* call[p]: the locals of the method p is inside
  last,     \* the model call that returned last, and what it returned
  issued,   \* history: issued[c] is what the last GenerateQRCode that returned
            \* code c returned
  won       \* history: the bag of <<t, id, v>>, one copy for every Update
            \* carrying version v whose UPDATE matched row id of table t

vars == <<scope, db, nextId, now, pc, call, last, issued, won>>

\* ------------------------------------------------------------- helpers
NoCall == [op |-> "none"]
NoRet  == [op |-> "none", t |-> "none", id |-> 0, result |-> OK, at |-> 0,
           expected |-> 0, stored |-> 0, version |-> 0]

Idle(p) == pc[p] = "idle"

\* a single-statement call involves no request state
NoProc == "none"

Ids == 1..MaxRows

\* the stored version of row id of table t, 0 when there is no such row
StoredVersion(t, id) == IF id \in DOMAIN db[t] THEN db[t][id].version ELSE 0

\* a call returns: expected is the version in the caller's struct when it called,
\* stored the version the row had when the call began (0: no such row), version
\* the version in the caller's struct when the call returns
Returns(op, t, id, result, expected, stored, version) ==
  last' = [op |-> op, t |-> t, id |-> id, result |-> result, at |-> now + 1,
           expected |-> expected, stored |-> stored, version |-> version]

\* table t with row id set to r
Put(t, id, r) == [db EXCEPT ![t] = [i \in DOMAIN db[t] \cup {id} |->
                                      IF i = id THEN r ELSE db[t][i]]]

Remove(t, id) == [db EXCEPT ![t] = [i \in DOMAIN db[t] \ {id} |-> db[t][i]]]

\* every write statement runs at a fresh CURRENT_TIMESTAMP
CanWrite == now < MaxClock

\* time passes between statements
Tick ==
  /\ now < MaxClock
  /\ now' = now + 1
  /\ UNCHANGED <<issued, won, scope, db, nextId, pc, call, last>>

\* ------------------------------------------------------ Insert (all models)
\* INSERT INTO t (...) VALUES (...) RETURNING id, created_at, updated_at, version:
\* id is generated, version and the timestamps take the column defaults.
RunInsert(p, t, cols, violates, duperr, next) ==
  /\ t \in scope /\ CanWrite
  /\ nextId[t] <= MaxRows
  /\ now' = now + 1
  /\ IF violates
       THEN /\ Returns("Insert", t, 0, duperr, 0, 0, 0)
            /\ UNCHANGED <<db, nextId, pc, call>>
       ELSE LET id  == nextId[t]
                row == cols @@ [version |-> 1, updated_at |-> now + 1]
            IN /\ db' = Put(t, id, row)
               /\ nextId' = [nextId EXCEPT ![t] = id + 1]
               /\ IF next = "idle"
                    THEN /\ Returns("Insert", t, id, OK, 0, 0, 1)
                         /\ UNCHANGED <<pc, call>>
                    ELSE /\ pc' = [pc EXCEPT ![p] = next]
                         /\ call' = [call EXCEPT ![p] =
                                      [op |-> "Insert", id |-> id,
                                       user_id |-> cols.user_id, expected |-> 0,
                                       stored |-> 0, version |-> 1]]
                         /\ UNCHANGED last
  /\ UNCHANGED <<issued, won, scope>>

\* ------------------------------------------------------ Update (all models)
\* the versions a caller's struct can carry
Versions == 1..MaxClock

\* an UPDATE whose WHERE clause names the row alone
UpdateWhereIdOnly(t, id, version) == {i \in DOMAIN db[t] : i = id}

\* the rows the WHERE clause "id = $n AND version = $m" of every Update selects
UpdateWhere(t, id, version) ==
  {i \in DOMAIN db[t] : i = id /\ db[t][i].version = version}

\* UPDATE t SET ... WHERE id = $n AND version = $m RETURNING ..., version:
\* id and version come from the caller's struct, set(row) is the SET clause
\* applied to the stored row; zero rows is sql.ErrNoRows, mapped to
\* ErrEditConflict; on success the RETURNING columns are scanned back into the
\* caller's struct.
\* an error switch that tells a missing row from a stale version
UpdateErrorNotFound(t, id) ==
  IF id \in DOMAIN db[t] THEN ErrEditConflict ELSE ErrRecordNotFound

\* Update's error switch: sql.ErrNoRows (no row matched) is ErrEditConflict,
\* whether the row has another version or is gone
UpdateError(t, id) == ErrEditConflict

RunUpdate(p, t, id, version, new, violates, duperr, next) ==
  /\ CanWrite /\ t \in scope
  /\ now' = now + 1
  /\ LET m == UpdateWhere(t, id, version) IN
     IF m = {}
       THEN /\ Returns("Update", t, id, UpdateError(t, id), version,
                       StoredVersion(t, id), version)
            /\ UNCHANGED <<db, pc, call, won>>
       ELSE IF violates
       THEN /\ Returns("Update", t, id, duperr, version, StoredVersion(t, id),
                       version)
            /\ UNCHANGED <<db, pc, call, won>>
       ELSE /\ db' = Put(t, id, new)
            /\ won' = won (+) SetToBag({<<t, id, version>>})
            /\ IF next = "idle"
                 THEN /\ Returns("Update", t, id, OK, version,
                                 StoredVersion(t, id), new.version)
                      /\ UNCHANGED <<pc, call>>
                 ELSE /\ pc' = [pc EXCEPT ![p] = next]
                      /\ call' = [call EXCEPT ![p] =
                                   [op |-> "Update", id |-> id,
                                    user_id |-> db[t][id].user_id,
                                    expected |-> version,
                                    stored |-> StoredVersion(t, id),
                                    version |-> new.version]]
                      /\ UNCHANGED last
  /\ UNCHANGED <<issued, scope, nextId>>

\* ------------------------------------------------------ Delete (all models)
\* qr_codes.user_id and qr_codes.vehicle_id are declared REFERENCES ... ON DELETE
\* CASCADE: the codes of a deleted user or vehicle go with it
Cascade(t, id, d) ==
  [d EXCEPT !["qr_codes"] =
     [i \in {j \in DOMAIN d["qr_codes"] :
               /\ ~(t = "vehicles" /\ d["qr_codes"][j].vehicle_id = id)
               /\ ~(t = "users" /\ d["qr_codes"][j].user_id = id)}
        |-> d["qr_codes"][i]]]

\* DELETE FROM t WHERE id = $1; zero rows affected is ErrRecordNotFound
Delete(t, id) ==
  /\ t \in scope /\ CanWrite
  /\ t # "users"
  /\ now' = now + 1
  /\ IF id \in DOMAIN db[t]
       THEN /\ db' = Cascade(t, id, Remove(t, id))
            /\ Returns("Delete", t, id, OK, 0, StoredVersion(t, id), 0)
       ELSE /\ UNCHANGED db
            /\ Returns("Delete", t, id, ErrRecordNotFound, 0, 0, 0)
  /\ UNCHANGED <<issued, won, scope, nextId, pc, call>>

\* a single-statement "UPDATE t SET ... WHERE id = $n AND <where>" model method
\* that reports zero affected rows as ErrRecordNotFound
RunExec(op, t, id, matches, new) ==
  /\ t \in scope /\ CanWrite
  /\ now' = now + 1
  /\ LET m == IF id \in DOMAIN db[t] /\ matches THEN {id} ELSE {} IN
     /\ db' = [db EXCEPT ![t] = [i \in DOMAIN db[t] |->
                                   IF i \in m THEN new ELSE db[t][i]]]
     /\ Returns(op, t, id, IF m = {} THEN ErrRecordNotFound ELSE OK, 0,
                StoredVersion(t, id), 0)
  /\ UNCHANGED <<issued, won, scope, nextId, pc, call>>

\* ------------------------------------------------------------- users
UserCols == [email : Emails, user_name : Names]

\* users.email is UNIQUE: some other row already has this email
EmailTaken(id, email) ==
  \E i \in DOMAIN db["users"] : i # id /\ db["users"][i].email = email

UserModalInsert ==
  \E c \in UserCols :
    RunInsert(NoProc, "users", c, EmailTaken(0, c.email), ErrDuplicateEmail, "idle")

\* SET user_name = $1, email = $2, password_hash = $3, activated = $4,
\* has_completed_onboarding = $5, version = version + 1
UserUpdateSet(row, e) ==
  [row EXCEPT !.user_name = e.user_name, !.email = e.email,
              !.version = row.version + 1]

UserModalUpdate ==
  \E id \in Ids, v \in Versions, e \in UserCols :
    RunUpdate(NoProc, "users", id, v, UserUpdateSet(db["users"][id], e),
              EmailTaken(id, e.email), ErrDuplicateEmail, "idle")

\* Update of a user whose struct was read just before and whose name alone the
\* request changes: it carries the version and the email the row has
UserModalUpdateRead ==
  \E id \in Issuers : \E name \in Names \ {db["users"][id].user_name} :
    LET e == [email |-> db["users"][id].email, user_name |-> name] IN
    RunUpdate(NoProc, "users", id, db["users"][id].version,
              UserUpdateSet(db["users"][id], e), EmailTaken(id, e.email),
              ErrDuplicateEmail, "idle")

\* ------------------------------------------------------------- vehicles
VehicleCols == [user_id : UserIds, license_plate : Plates, is_default : BOOLEAN]

\* UNIQUE(license_plate): some other row already has this plate
PlateTaken(id, plate) ==
  \E i \in DOMAIN db["vehicles"] : i # id /\ db["vehicles"][i].license_plate = plate

\* UPDATE vehicles SET is_default = false WHERE user_id = $1 AND id != $2
UnsetDefaultForUser(userID, exceptVehicleID) ==
  [db EXCEPT !["vehicles"] =
     [i \in DOMAIN db["vehicles"] |->
        IF db["vehicles"][i].user_id = userID /\ i # exceptVehicleID
          THEN [db["vehicles"][i] EXCEPT !.is_default = FALSE]
          ELSE db["vehicles"][i]]]

VehicleModelInsert(p) ==
  \E c \in VehicleCols :
    Idle(p) /\
    RunInsert(p, "vehicles", c, PlateTaken(0, c.license_plate),
              ErrDuplicateLicensePlate,
              IF c.is_default THEN "UnsetDefault" ELSE "idle")

\* SET license_plate = $1, make = $2, model = $3, color = $4, vehicle_type = $5,
\* is_default = $6, updated_at = CURRENT_TIMESTAMP, version = version + 1
VehicleUpdateSet(row, e, ts) ==
  [row EXCEPT !.license_plate = e.license_plate, !.is_default = e.is_default,
              !.updated_at = ts, !.version = row.version + 1]

VehicleEdits == [license_plate : Plates, is_default : BOOLEAN]

VehicleModelUpdate(p) ==
  \E id \in Ids, v \in Versions, e \in VehicleEdits :
    Idle(p) /\
    RunUpdate(p, "vehicles", id, v, VehicleUpdateSet(db["vehicles"][id], e, now + 1),
              PlateTaken(id, e.license_plate), ErrDuplicateLicensePlate,
              IF e.is_default THEN "UnsetDefault" ELSE "idle")

\* Update of a vehicle whose struct was read just before and whose plate alone
\* the request changes
VehicleModelUpdateRead ==
  \E id \in DOMAIN db["vehicles"] :
  \E plate \in Plates \ {db["vehicles"][id].license_plate} :
    /\ db["vehicles"][id].user_id \in Issuers
    /\ ~db["vehicles"][id].is_default
    /\ RunUpdate(NoProc, "vehicles", id, db["vehicles"][id].version,
                 VehicleUpdateSet(db["vehicles"][id], [license_plate |-> plate,
                                                 is_default |-> FALSE], now + 1),
                 PlateTaken(id, plate), ErrDuplicateLicensePlate, "idle")

\* the second statement of Insert and of Update when vehicle.IsDefault:
\* m.UnsetDefaultForUser(vehicle.UserID, vehicle.ID), then return nil
VehicleUnsetDefault(p) ==
  /\ pc[p] = "UnsetDefault" /\ CanWrite
  /\ now' = now + 1
  /\ db' = UnsetDefaultForUser(call[p].user_id, call[p].id)
  /\ pc' = [pc EXCEPT ![p] = "idle"]
  /\ call' = [call EXCEPT ![p] = NoCall]
  /\ Returns(call[p].op, "vehicles", call[p].id, OK, call[p].expected,
             call[p].stored, call[p].version)
  /\ UNCHANGED <<issued, won, scope, nextId>>

\* the vehicles of user u that are stored with is_default = true
DefaultsOf(u) ==
  {i \in DOMAIN db["vehicles"] :
     db["vehicles"][i].user_id = u /\ db["vehicles"][i].is_default}

\* SetAsDefault, first statement:
\* UPDATE vehicles SET is_default = false WHERE user_id = $1
\* (neither statement of SetAsDefault reads CURRENT_TIMESTAMP; defaults is
\* history: the user's default vehicles when the call began)
VehicleSetAsDefaultUnset(p, userID, vehicleID) ==
  /\ Idle(p) /\ "vehicles" \in scope
  /\ db' = UnsetDefaultForUser(userID, 0)
  /\ pc' = [pc EXCEPT ![p] = "SetDefault"]
  /\ call' = [call EXCEPT ![p] = [op |-> "SetAsDefault", id |-> vehicleID,
                                  user_id |-> userID,
                                  stored |-> StoredVersion("vehicles", vehicleID),
                                  defaults |-> DefaultsOf(userID)]]
  /\ UNCHANGED <<issued, won, scope, nextId, last, now>>

\* SetAsDefault, second statement:
\* UPDATE vehicles SET is_default = true WHERE id = $1 AND user_id = $2
VehicleSetAsDefaultSet(p) ==
  /\ pc[p] = "SetDefault"
  /\ LET id == call[p].id
         m  == {i \in DOMAIN db["vehicles"] :
                  i = id /\ db["vehicles"][i].user_id = call[p].user_id}
     IN /\ db' = [db EXCEPT !["vehicles"] =
                    [i \in DOMAIN db["vehicles"] |->
                       IF i \in m THEN [db["vehicles"][i] EXCEPT !.is_default = TRUE]
                                  ELSE db["vehicles"][i]]]
        /\ Returns("SetAsDefault", "vehicles", id,
                   IF m = {} THEN ErrRecordNotFound ELSE OK, 0, call[p].stored, 0)
  /\ pc' = [pc EXCEPT ![p] = "idle"]
  /\ call' = [call EXCEPT ![p] = NoCall]
  /\ UNCHANGED <<issued, won, scope, nextId, now>>

\* ------------------------------------------------------------- parking_lots
LotCols == [name : Names]

ParkingLotModelInsert ==
  \E c \in LotCols : RunInsert(NoProc, "parking_lots", c, FALSE, OK, "idle")

\* SET name = $1, ..., is_active = $11, updated_at = CURRENT_TIMESTAMP,
\* version = version + 1
ParkingLotUpdateSet(row, e, ts) ==
  [row EXCEPT !.name = e.name, !.updated_at = ts, !.version = row.version + 1]

ParkingLotModelUpdate ==
  \E id \in Ids, v \in Versions, e \in LotCols :
    RunUpdate(NoProc, "parking_lots", id, v,
              ParkingLotUpdateSet(db["parking_lots"][id], e, now + 1), FALSE, OK, "idle")

\* ------------------------------------------------------------- reviews
Ratings == {1, 5}
ReviewCols == [rating : Ratings]

ReviewModelInsert ==
  \E c \in ReviewCols : RunInsert(NoProc, "reviews", c, FALSE, OK, "idle")

\* a SET clause that leaves version as it is
ReviewUpdateSetSameVersion(row, e, ts) ==
  [row EXCEPT !.rating = e.rating, !.updated_at = ts]

\* SET rating = $1, comment = $2, updated_at = CURRENT_TIMESTAMP, version = version + 1
ReviewUpdateSet(row, e, ts) ==
  [row EXCEPT !.rating = e.rating, !.updated_at = ts, !.version = row.version + 1]

ReviewModelUpdate ==
  \E id \in Ids, v \in Versions, e \in ReviewCols :
    RunUpdate(NoProc, "reviews", id, v, ReviewUpdateSet(db["reviews"][id], e, now + 1),
              FALSE, OK, "idle")

\* ------------------------------------------------------------- parking_spots
SpotNumbers == {"A", "B"}
SpotCols == [spot_number : SpotNumbers, is_occupied : BOOLEAN, is_reserved : {FALSE}]

\* UNIQUE(parking_lot_id, spot_number), one lot
SpotNumberTaken(id, n) ==
  \E i \in DOMAIN db["parking_spots"] :
     i # id /\ db["parking_spots"][i].spot_number = n

ParkingSpotModelInsert ==
  \E c \in {x \in SpotCols : ~x.is_occupied} :
    RunInsert(NoProc, "parking_spots", c, SpotNumberTaken(0, c.spot_number),
              ErrUniqueViolation, "idle")

\* SET spot_number = $1, spot_type = $2, is_occupied = $3, is_reserved = $4,
\* is_active = $5, updated_at = CURRENT_TIMESTAMP, version = version + 1
ParkingSpotUpdateSet(row, e, ts) ==
  [row EXCEPT !.spot_number = e.spot_number, !.is_occupied = e.is_occupied,
              !.is_reserved = e.is_reserved,
              !.updated_at = ts, !.version = row.version + 1]

ParkingSpotModelUpdate ==
  \E id \in Ids, v \in Versions, e \in SpotCols :
    RunUpdate(NoProc, "parking_spots", id, v,
              ParkingSpotUpdateSet(db["parking_spots"][id], e, now + 1),
              SpotNumberTaken(id, e.spot_number), ErrUniqueViolation, "idle")

\* SET is_occupied = $1, updated_at = CURRENT_TIMESTAMP WHERE id = $2
SetOccupiedSet(row, occupied, ts) ==
  [row EXCEPT !.is_occupied = occupied, !.updated_at = ts]

ParkingSpotModelSetOccupied(spotID, occupied) ==
  RunExec("SetOccupied", "parking_spots", spotID, TRUE,
          SetOccupiedSet(db["parking_spots"][spotID], occupied, now + 1))

\* SET is_reserved = $1, updated_at = CURRENT_TIMESTAMP WHERE id = $2
SetReservedSet(row, reserved, ts) ==
  [row EXCEPT !.is_reserved = reserved, !.updated_at = ts]

ParkingSpotModelSetReserved(spotID, reserved) ==
  RunExec("SetReserved", "parking_spots", spotID, TRUE,
          SetReservedSet(db["parking_spots"][spotID], reserved, now + 1))

\* ------------------------------------------------------------- reservations
EndTimes == {2, MaxClock + 1}
ReservationCols == [end_time : EndTimes,
                    status : {ReservationStatusPending, ReservationStatusConfirmed}]

ReservationModelInsert ==
  \E c \in ReservationCols :
    RunInsert(NoProc, "reservations",
              c @@ [actual_start_time |-> NULL, actual_end_time |-> NULL],
              FALSE, OK, "idle")

\* SET parking_spot_id = $1, start_time = $2, end_time = $3, actual_start_time = $4,
\* actual_end_time = $5, status = $6, total_amount = $7,
\* updated_at = CURRENT_TIMESTAMP, version = version + 1
ReservationUpdateSet(row, e, ts) ==
  [row EXCEPT !.end_time = e.end_time,
              !.actual_start_time = e.actual_start_time,
              !.actual_end_time = e.actual_end_time,
              !.status = e.status,
              !.updated_at = ts, !.version = row.version + 1]

ReservationEdits ==
  [end_time : {MaxClock + 1}, actual_start_time : {NULL}, actual_end_time : {NULL},
   status : {ReservationStatusConfirmed, ReservationStatusCancelled}]

ReservationModelUpdate ==
  \E id \in Ids, v \in Versions, e \in ReservationEdits :
    RunUpdate(NoProc, "reservations", id, v,
              ReservationUpdateSet(db["reservations"][id], e, now + 1), FALSE, OK, "idle")

\* SET status = $1, updated_at = CURRENT_TIMESTAMP WHERE id = $2
ReservationUpdateStatusSet(row, status, ts) ==
  [row EXCEPT !.status = status, !.updated_at = ts]

ReservationModelUpdateStatus(id, status) ==
  RunExec("UpdateStatus", "reservations", id, TRUE,
          ReservationUpdateStatusSet(db["reservations"][id], status, now + 1))

\* WHERE id = $3, without the status condition
CheckInAnyStatus(row) == row.status = row.status

\* SET actual_start_time = $1, status = 'active', updated_at = CURRENT_TIMESTAMP
\* WHERE id = $3 AND status = 'confirmed'
CheckInWhere(row) == row.status = ReservationStatusConfirmed
CheckInSet(row, actualStartTime, ts) ==
  [row EXCEPT !.actual_start_time = actualStartTime,
              !.status = ReservationStatusActive, !.updated_at = ts]

ReservationModelCheckIn(id) ==
  RunExec("CheckIn", "reservations", id, CheckInWhere(db["reservations"][id]),
          CheckInSet(db["reservations"][id], now, now + 1))

\* SET actual_end_time = $1, status = 'completed', updated_at = CURRENT_TIMESTAMP
\* WHERE id = $3 AND status = 'active'
CheckOutWhere(row) == row.status = ReservationStatusActive
CheckOutSet(row, actualEndTime, ts) ==
  [row EXCEPT !.actual_end_time = actualEndTime,
              !.status = ReservationStatusCompleted, !.updated_at = ts]

ReservationModelCheckOut(id) ==
  RunExec("CheckOut", "reservations", id, CheckOutWhere(db["reservations"][id]),
          CheckOutSet(db["reservations"][id], now, now + 1))

\* WHERE id = $2 AND status <> 'cancelled'
CancelUnlessCancelled(row) == row.status # ReservationStatusCancelled

\* SET status = 'cancelled', updated_at = CURRENT_TIMESTAMP
\* WHERE id = $2 AND status IN ('pending', 'confirmed')
CancelWhere(row) ==
  row.status \in {ReservationStatusPending, ReservationStatusConfirmed}
CancelSet(row, ts) ==
  [row EXCEPT !.status = ReservationStatusCancelled, !.updated_at = ts]

ReservationModelCancel(id) ==
  RunExec("Cancel", "reservations", id, CancelWhere(db["reservations"][id]),
          CancelSet(db["reservations"][id], now + 1))

\* UPDATE reservations SET status = 'expired', updated_at = CURRENT_TIMESTAMP
\* WHERE status = 'confirmed' AND end_time < NOW(); the result is not inspected
ExpireOverdueWhere(row, ts) ==
  row.status = ReservationStatusConfirmed /\ row.end_time < ts
ExpireOverdueSet(row, ts) ==
  [row EXCEPT !.status = ReservationStatusExpired, !.updated_at = ts]

ReservationModelExpireOverdue ==
  /\ "reservations" \in scope /\ CanWrite
  /\ now' = now + 1
  /\ db' = [db EXCEPT !["reservations"] =
              [i \in DOMAIN db["reservations"] |->
                 IF ExpireOverdueWhere(db["reservations"][i], now + 1)
                   THEN ExpireOverdueSet(db["reservations"][i], now + 1)
                   ELSE db["reservations"][i]]]
  /\ Returns("ExpireOverdue", "reservations", 0, OK, 0, 0, 0)
  /\ UNCHANGED <<issued, won, scope, nextId, pc, call>>

\* ------------------------------------------------------------- payments
TxIds == {7}
PaymentEdits == {[status |-> PaymentStatusCompleted, transaction_id |-> 7],
                 [status |-> PaymentStatusFailed, transaction_id |-> NULL]}

PaymentModelInsert ==
  RunInsert(NoProc, "payments",
            [status |-> PaymentStatusPending, transaction_id |-> NULL],
            FALSE, OK, "idle")

\* SET amount = $1, currency = $2, payment_method = $3, status = $4,
\* transaction_id = $5, payment_date = $6, updated_at = CURRENT_TIMESTAMP,
\* version = version + 1
PaymentUpdateSet(row, e, ts) ==
  [row EXCEPT !.status = e.status, !.transaction_id = e.transaction_id,
              !.updated_at = ts, !.version = row.version + 1]

PaymentModelUpdate ==
  \E id \in Ids, v \in Versions, e \in PaymentEdits :
    RunUpdate(NoProc, "payments", id, v, PaymentUpdateSet(db["payments"][id], e, now + 1),
              FALSE, OK, "idle")

\* SET status = $1, transaction_id = $2, updated_at = CURRENT_TIMESTAMP WHERE id = $3
PaymentUpdateStatusSet(row, status, transactionID, ts) ==
  [row EXCEPT !.status = status, !.transaction_id = transactionID, !.updated_at = ts]

PaymentModelUpdateStatus(id, status, transactionID) ==
  RunExec("UpdateStatus", "payments", id, TRUE,
          PaymentUpdateStatusSet(db["payments"][id], status, transactionID, now + 1))

\* ------------------------------------------------------------- parking_sessions
Amounts == {5}

ParkingSessionModelInsert ==
  RunInsert(NoProc, "parking_sessions",
            [check_in_time |-> now, check_out_time |-> NULL,
             status |-> SessionStatusActive, total_duration |-> NULL,
             total_amount |-> NULL],
            FALSE, OK, "idle")

\* SET check_out_time = $1, status = $2, total_duration = $3, total_amount = $4,
\* updated_at = CURRENT_TIMESTAMP, version = version + 1
ParkingSessionUpdateSet(row, e, ts) ==
  [row EXCEPT !.check_out_time = e.check_out_time, !.status = e.status,
              !.total_duration = e.total_duration,
              !.total_amount = e.total_amount,
              !.updated_at = ts, !.version = row.version + 1]

SessionEdits == [check_out_time : {NULL}, total_duration : {NULL},
                 status : {SessionStatusActive, SessionStatusViolated},
                 total_amount : {NULL}]

ParkingSessionModelUpdate ==
  \E id \in Ids, v \in Versions, e \in SessionEdits :
    RunUpdate(NoProc, "parking_sessions", id, v,
              ParkingSessionUpdateSet(db["parking_sessions"][id], e, now + 1), FALSE, OK, "idle")

\* CheckOut, first statement:
\* SELECT EXTRACT(EPOCH FROM ($1 - check_in_time))/60 FROM parking_sessions
\* WHERE id = $2; no row: the driver's error is returned as it is
SessionCheckOutSelect(p, id, totalAmount) ==
  /\ Idle(p) /\ "parking_sessions" \in scope /\ CanWrite
  /\ now' = now + 1
  /\ IF id \in DOMAIN db["parking_sessions"]
       THEN /\ pc' = [pc EXCEPT ![p] = "CheckOut"]
            /\ call' = [call EXCEPT ![p] =
                 [op |-> "CheckOut", id |-> id, checkOutTime |-> now,
                  totalAmount |-> totalAmount,
                  durationMinutes |-> now - db["parking_sessions"][id].check_in_time,
                  stored |-> StoredVersion("parking_sessions", id)]]
            /\ UNCHANGED last
       ELSE /\ Returns("CheckOut", "parking_sessions", id, ErrNoRows, 0, 0, 0)
            /\ UNCHANGED <<pc, call>>
  /\ UNCHANGED <<issued, won, scope, db, nextId>>

\* SET check_out_time = $1, status = 'completed', total_duration = $3,
\* total_amount = $4, updated_at = CURRENT_TIMESTAMP WHERE id = $5 AND status = 'active'
SessionCheckOutWhere(row) == row.status = SessionStatusActive
SessionCheckOutSet(row, c, ts) ==
  [row EXCEPT !.check_out_time = c.checkOutTime, !.status = SessionStatusCompleted,
              !.total_duration = c.durationMinutes, !.total_amount = c.totalAmount,
              !.updated_at = ts]

\* CheckOut, second statement
SessionCheckOutUpdate(p) ==
  /\ pc[p] = "CheckOut" /\ CanWrite
  /\ now' = now + 1
  /\ LET t == "parking_sessions"
         id == call[p].id
         m == {i \in DOMAIN db[t] : i = id /\ SessionCheckOutWhere(db[t][i])}
     IN /\ db' = [db EXCEPT ![t] = [i \in DOMAIN db[t] |->
                     IF i \in m THEN SessionCheckOutSet(db[t][i], call[p], now + 1)
                                ELSE db[t][i]]]
        /\ Returns("CheckOut", t, id, IF m = {} THEN ErrRecordNotFound ELSE OK,
                   0, call[p].stored, 0)
  /\ pc' = [pc EXCEPT ![p] = "idle"]
  /\ call' = [call EXCEPT ![p] = NoCall]
  /\ UNCHANGED <<issued, won, scope, nextId>>

\* SET status = 'violated', updated_at = CURRENT_TIMESTAMP WHERE id = $2
MarkAsViolationSet(row, ts) ==
  [row EXCEPT !.status = SessionStatusViolated, !.updated_at = ts]

ParkingSessionModelMarkAsViolation(id) ==
  RunExec("MarkAsViolation", "parking_sessions", id, TRUE,
          MarkAsViolationSet(db["parking_sessions"][id], now + 1))

\* ------------------------------------------------------------- qr_codes
GenCodes == {"k1", "k2"}            \* the codes generateUniqueCode draws here
Codes    == GenCodes \cup {"k0"}    \* the codes a client presents; "k0" is never drawn
TTLs     == {2}                     \* expiry_hours, in ticks of the clock
Purposes == {"parking"}
RequestPurposes == Purposes \cup {"towing"}   \* what a request body can name

ErrNotOwner     == "vehicle does not belong to user"
ErrForeignKey   == "pq: insert or update violates foreign key constraint"
ErrWriteFile    == "failed to generate QR image"

QR == db["qr_codes"]

\* the data.QRCodeData literal of GenerateQRCode
QRCodeData(userID, user, vehicleID, vehicle, code, at, expiresAt, purpose) ==
  [user_profile |-> [id |-> userID, username |-> user.user_name,
                     email |-> user.email],
   vehicle      |-> [id |-> vehicleID, license_plate |-> vehicle.license_plate],
   qr_info      |-> [code |-> code, generated_at |-> at,
                     expires_at |-> expiresAt, purpose |-> purpose]]

\* the zero value of data.QRCodeData
ZeroQRCodeData ==
  [user_profile |-> [id |-> 0, username |-> "", email |-> ""],
   vehicle      |-> [id |-> 0, license_plate |-> ""],
   qr_info      |-> [code |-> "", generated_at |-> 0, expires_at |-> 0,
                     purpose |-> ""]]

\* json.Marshal: an object is the sequence of its <<key, value>> members, the
\* keys taken from the json tags; ids and times are written as text
Marshal(d) ==
  << <<"user_profile", << <<"id", ToString(d.user_profile.id)>>,
                          <<"username", d.user_profile.username>>,
                          <<"email", d.user_profile.email>> >> >>,
     <<"vehicle", << <<"id", ToString(d.vehicle.id)>>,
                     <<"license_plate", d.vehicle.license_plate>> >> >>,
     <<"qr_info", << <<"code", d.qr_info.code>>,
                     <<"generated_at", ToString(d.qr_info.generated_at)>>,
                     <<"expires_at", ToString(d.qr_info.expires_at)>>,
                     <<"purpose", d.qr_info.purpose>> >> >> >>

\* the value of member key of a JSON object, zero when the object has none
Member(obj, key, zero) ==
  LET S == {i \in DOMAIN obj : obj[i][1] = key} IN
  IF S = {} THEN zero ELSE obj[CHOOSE i \in S : \A j \in S : i <= j][2]

\* the number a JSON text denotes, 0 when it denotes none
ParseNumber(text) ==
  LET S == {n \in 0..(2 * MaxClock + MaxRows) : ToString(n) = text} IN
  IF S = {} THEN 0 ELSE CHOOSE n \in S : TRUE

\* json.Unmarshal into a data.QRCodeData: each field is read from the member
\* its json tag names and stays zero when that member is missing
Unmarshal(j) ==
  LET up == Member(j, "user_profile", << >>)
      ve == Member(j, "vehicle", << >>)
      qi == Member(j, "qr_info", << >>)
  IN [user_profile |-> [id |-> ParseNumber(Member(up, "id", "")),
                        username |-> Member(up, "username", ""),
                        email |-> Member(up, "email", "")],
      vehicle      |-> [id |-> ParseNumber(Member(ve, "id", "")),
                        license_plate |-> Member(ve, "license_plate", "")],
      qr_info      |-> [code |-> Member(qi, "code", ""),
                        generated_at |->
                          ParseNumber(Member(qi, "generated_at", "")),
                        expires_at |-> ParseNumber(Member(qi, "expires_at", "")),
                        purpose |-> Member(qi, "purpose", "")]]

\* a SELECT that leaves the expiry out of its WHERE clause
GetByCodeActiveOnly(code) ==
  {i \in DOMAIN QR : QR[i].code = code /\ QR[i].is_active}

\* WHERE code = $1 AND is_active = true AND expires_at > CURRENT_TIMESTAMP
GetByCode(code) ==
  {i \in DOMAIN QR : /\ QR[i].code = code
                     /\ QR[i].is_active
                     /\ QR[i].expires_at > now}

\* a verification that fills the user profile from the users table
VerifyQRCodeLive(code) ==
  LET m == GetByCode(code) IN
  IF m = {} THEN [err |-> ErrRecordNotFound, data |-> ZeroQRCodeData]
  ELSE LET row == QR[CHOOSE i \in m : TRUE]
           d   == Unmarshal(row.data)
           u   == db["users"][row.user_id]
       IN [err |-> OK,
           data |-> [d EXCEPT !.user_profile.username = u.user_name,
                              !.user_profile.email = u.email]]

\* a verification that tells a code that is there but no longer valid from one
\* that is not there
VerifyQRCodeTelling(code) ==
  LET m == GetByCode(code) IN
  IF m = {} /\ \E i \in DOMAIN QR : QR[i].code = code
    THEN [err |-> "QR code is no longer valid", data |-> ZeroQRCodeData]
  ELSE IF m = {} THEN [err |-> ErrRecordNotFound, data |-> ZeroQRCodeData]
  ELSE [err |-> OK, data |-> Unmarshal(QR[CHOOSE i \in m : TRUE].data)]

\* Service.VerifyQRCode: GetByCode, sql.ErrNoRows mapped to ErrRecordNotFound
\* there, then json.Unmarshal of the data column
VerifyQRCode(code) ==
  LET m == GetByCode(code) IN
  IF m = {} THEN [err |-> ErrRecordNotFound, data |-> ZeroQRCodeData]
            ELSE [err |-> OK, data |-> Unmarshal(QR[CHOOSE i \in m : TRUE].data)]

\* the response verifyQRCodeHandler writes for the service's result
VerifyResponse(r) ==
  IF r.err = ErrRecordNotFound
    THEN [status |-> 404, message |-> "QR code not found or expired"]
  ELSE IF r.err # OK
    THEN [status |-> 500,
          message |-> "the server encountered a problem and could not process your request"]
  ELSE [status |-> 200, message |-> "QR code verified successfully"]

\* verifyQRCodeHandler for a request whose code is code: the status and the
\* envelope it writes
verifyQRCodeHandler(code) ==
  IF code = ""
    THEN [status |-> 422, message |-> "must be provided",
          qr_data |-> ZeroQRCodeData]
    ELSE LET r == VerifyQRCode(code) IN
         VerifyResponse(r) @@ [qr_data |-> r.data]

\* a verify request is served: a read, nothing stored changes
Verify(code) ==
  /\ "qr_codes" \in scope
  /\ verifyQRCodeHandler(code).status \in {200, 404}
  /\ UNCHANGED vars

\* an UPDATE that deactivates the user's expired codes only
DeactivateExpiredForUser(userID) ==
  [db EXCEPT !["qr_codes"] =
     [i \in DOMAIN QR |-> IF QR[i].user_id = userID /\ QR[i].expires_at <= now
                            THEN [QR[i] EXCEPT !.is_active = FALSE,
                                               !.unswept = FALSE]
                            ELSE QR[i]]]

\* an UPDATE that sets is_active = true on the user's rows
ReactivateAllForUser(userID) ==
  [db EXCEPT !["qr_codes"] =
     [i \in DOMAIN QR |-> IF QR[i].user_id = userID
                            THEN [QR[i] EXCEPT !.is_active = TRUE,
                                               !.unswept = TRUE]
                            ELSE QR[i]]]

\* an UPDATE without the WHERE clause
DeactivateAllUsers(userID) ==
  [db EXCEPT !["qr_codes"] =
     [i \in DOMAIN QR |-> [QR[i] EXCEPT !.is_active = FALSE,
                                        !.unswept = FALSE]]]

\* UPDATE qr_codes SET is_active = false WHERE user_id = $1
\* (unswept is history: the is_active the row has in the same run without its
\* CleanupExpired calls)
DeactivateAllForUser(userID) ==
  [db EXCEPT !["qr_codes"] =
     [i \in DOMAIN QR |-> IF QR[i].user_id = userID
                            THEN [QR[i] EXCEPT !.is_active = FALSE,
                                               !.unswept = FALSE]
                            ELSE QR[i]]]

\* WHERE user_id = $1 AND is_active = true AND expires_at > CURRENT_TIMESTAMP
GetActiveForUser(userID) ==
  {i \in DOMAIN QR : /\ QR[i].user_id = userID
                     /\ QR[i].is_active
                     /\ QR[i].expires_at > now}

\* an UPDATE that deactivates every row
CleanupAll ==
  /\ "qr_codes" \in scope
  /\ db' = [db EXCEPT !["qr_codes"] =
              [i \in DOMAIN QR |-> [QR[i] EXCEPT !.is_active = FALSE]]]
  /\ UNCHANGED <<scope, nextId, now, pc, call, last, issued, won>>

\* UPDATE qr_codes SET is_active = false WHERE expires_at <= CURRENT_TIMESTAMP
CleanupExpired ==
  /\ "qr_codes" \in scope
  /\ db' = [db EXCEPT !["qr_codes"] =
              [i \in DOMAIN QR |-> IF QR[i].expires_at <= now
                                     THEN [QR[i] EXCEPT !.is_active = FALSE]
                                     ELSE QR[i]]]
  /\ UNCHANGED <<scope, nextId, now, pc, call, last, issued, won>>

\* s.models.Users.Get(userID): the users row with that id, ErrRecordNotFound
\* when there is none
UsersGet(userID) ==
  IF userID \in DOMAIN db["users"]
    THEN [err |-> OK, user |-> db["users"][userID]]
    ELSE [err |-> ErrRecordNotFound]

\* SELECT ... FROM vehicles WHERE id = $1; sql.ErrNoRows is ErrRecordNotFound
VehicleModelGet(id) ==
  IF id \in DOMAIN db["vehicles"]
    THEN [err |-> OK, vehicle |-> db["vehicles"][id]]
    ELSE [err |-> ErrRecordNotFound]

\* fmt.Errorf(msg + ": %w", err): an error with text msg that wraps err; a
\* fmt.Errorf without %w wraps nothing
Errorf(msg, err) == [msg |-> msg, wraps |-> err]

NotWrapping == "none"

\* a nil error, in the shape of the errors GenerateQRCode returns
Nil == Errorf("", OK)

\* errors.Is(err, target) for the errors GenerateQRCode returns
ErrorsIs(err, target) == err.wraps = target

\* the helper generateQRCodeHandler answers with for what GenerateQRCode
\* returned: notFoundResponse for ErrRecordNotFound, serverErrorResponse for
\* every other error, writeJSON(StatusCreated) for none
GenerateResponse(err) ==
  IF err = Nil THEN "writeJSON"
  ELSE IF ErrorsIs(err, ErrRecordNotFound) THEN "notFoundResponse"
  ELSE "serverErrorResponse"

\* GenerateQRCode returns err before anything is issued, after dbcalls calls of
\* the models, and the handler answers
GenerateFails(p, err, dbcalls) ==
  /\ last' = [op |-> "Generate", t |-> "qr_codes", result |-> err,
              response |-> GenerateResponse(err), dbcalls |-> dbcalls]
  /\ pc' = [pc EXCEPT ![p] = "idle"]
  /\ call' = [call EXCEPT ![p] = NoCall]
  /\ UNCHANGED issued

\* GenerateQRCode from s.models.Users.Get(userID) to
\* s.models.QRCodes.DeactivateAllForUser(userID): the two reads, the ownership
\* check, the drawn code, the payload built at time.Now() and marshalled, and
\* the UPDATE.  The reads touch no table the UPDATE writes, so the statements
\* are taken as one step at the time of the UPDATE.
GenerateDeactivate(p, userID, vehicleID, expiryHours, purpose, code) ==
  /\ "qr_codes" \in scope /\ Idle(p)
  /\ nextId["qr_codes"] + Cardinality({q \in Procs : ~Idle(q)})
       <= Cardinality(GenCodes)
  /\ IF UsersGet(userID).err # OK
       THEN /\ GenerateFails(p, Errorf("failed to get user",
                                       UsersGet(userID).err), 1)
            /\ UNCHANGED db
     ELSE IF VehicleModelGet(vehicleID).err # OK
       THEN /\ GenerateFails(p, Errorf("failed to get vehicle",
                                       VehicleModelGet(vehicleID).err), 2)
            /\ UNCHANGED db
     ELSE IF VehicleModelGet(vehicleID).vehicle.user_id # userID
       THEN GenerateFails(p, Errorf(ErrNotOwner, NotWrapping), 2) /\ UNCHANGED db
     ELSE LET expiresAt == now + expiryHours
              qrData == QRCodeData(userID, UsersGet(userID).user, vehicleID,
                                   VehicleModelGet(vehicleID).vehicle, code, now,
                                   expiresAt, purpose)
          IN /\ db' = DeactivateAllForUser(userID)
             /\ pc' = [pc EXCEPT ![p] = "Insert"]
             /\ call' = [call EXCEPT ![p] =
                          [op |-> "Generate", user_id |-> userID,
                           began |-> nextId["qr_codes"],
                           vehicle_id |-> vehicleID, code |-> code,
                           qrData |-> qrData, dataJSON |-> Marshal(qrData),
                           expiresAt |-> expiresAt]]
             /\ UNCHANGED <<last, issued>>
  /\ UNCHANGED <<scope, nextId, now, won>>

\* the purposes generateQRCodeHandler's validator permits
PermittedPurposes == {"parking", "identification", "emergency"}

\* generateQRCodeHandler up to the first statement of GenerateQRCode: the input
\* is validated, and a request that fails is answered with
\* failedValidationResponse before the service is created
generateQRCodeHandler(p, userID, vehicleID, expiryHours, purpose, code) ==
  IF purpose \in PermittedPurposes /\ expiryHours > 0 /\ expiryHours <= 168
    THEN GenerateDeactivate(p, userID, vehicleID, expiryHours, purpose, code)
    ELSE /\ Idle(p)
         /\ last' = [op |-> "Generate", t |-> "qr_codes",
                     result |-> Errorf("validation", NotWrapping),
                     response |-> "failedValidationResponse", dbcalls |-> 0]
         /\ UNCHANGED <<scope, db, nextId, now, pc, call, issued, won>>

\* GenerateQRCode from s.models.QRCodes.Insert(qrCodeRecord) to the return:
\* INSERT INTO qr_codes (user_id, vehicle_id, code, data, expires_at, is_active),
\* code is UNIQUE and both ids are foreign keys; then qrcode.WriteFile, which
\* the file system lets succeed or not
GenerateInsert(p, written) ==
  /\ pc[p] = "Insert"
  /\ LET c == call[p] IN
     IF \E i \in DOMAIN QR : QR[i].code = c.code
       THEN /\ GenerateFails(p, Errorf("failed to save QR code",
                                       ErrUniqueViolation), 4)
            /\ UNCHANGED <<db, nextId>>
     ELSE IF c.user_id \notin DOMAIN db["users"]
             \/ c.vehicle_id \notin DOMAIN db["vehicles"]
       THEN /\ GenerateFails(p, Errorf("failed to save QR code", ErrForeignKey), 4)
            /\ UNCHANGED <<db, nextId>>
     ELSE LET id  == nextId["qr_codes"]
              row == [user_id |-> c.user_id, vehicle_id |-> c.vehicle_id,
                      code |-> c.code, data |-> c.dataJSON,
                      expires_at |-> c.expiresAt, is_active |-> TRUE,
                      unswept |-> TRUE, version |-> 1]
          IN /\ db' = Put("qr_codes", id, row)
             /\ nextId' = [nextId EXCEPT !["qr_codes"] = id + 1]
             /\ IF written
                  THEN /\ last' = [op |-> "Generate", t |-> "qr_codes",
                                   result |-> Nil,
                                   response |-> GenerateResponse(Nil),
                                   dbcalls |-> 4]
                       /\ issued' = [k \in DOMAIN issued \cup {c.code} |->
                                       IF k = c.code
                                         THEN [id |-> id, user_id |-> c.user_id,
                                               began |-> c.began,
                                               data |-> c.qrData,
                                               expires_at |-> c.expiresAt]
                                         ELSE issued[k]]
                       /\ pc' = [pc EXCEPT ![p] = "idle"]
                       /\ call' = [call EXCEPT ![p] = NoCall]
                  ELSE GenerateFails(p, Errorf(ErrWriteFile, "write error"), 4)
  /\ UNCHANGED <<scope, now, won>>

\* ------------------------------------------------- one writer, many Updates
\* the tables whose Update a caller chains here
ChainTables == {"users", "parking_lots"}

\* the SET clause of table t's Update for the caller's struct e
ChainUpdateSet(t, row, e, ts) ==
  IF t = "users" THEN UserUpdateSet(row, e) ELSE ParkingLotUpdateSet(row, e, ts)

\* Scan of Update's RETURNING columns into the caller's struct:
\* Scan(&user.Version) for users, Scan(&lot.UpdatedAt, &lot.Version) for lots
UpdateScan(t, entity, row) ==
  IF t = "users"
    THEN [entity EXCEPT !.version = row.version]
    ELSE [entity EXCEPT !.updated_at = row.updated_at, !.version = row.version]

\* the struct a SELECT of row id of table t fills: ParkingLotModel.Get selects
\* every column, UserModal.GetByEmail selects no updated_at and leaves
\* user.UpdatedAt the zero time
ChainSelect(t, id) ==
  IF t = "users" THEN [db[t][id] EXCEPT !.updated_at = NULL] ELSE db[t][id]

\* a caller reads row id of table t into a struct it keeps
ChainGet(p, t, id) ==
  /\ Idle(p) /\ t \in scope /\ t \in ChainTables
  /\ id \in DOMAIN db[t]
  /\ pc' = [pc EXCEPT ![p] = "holding"]
  /\ call' = [call EXCEPT ![p] =
               [op |-> "Chain", t |-> t, id |-> id, entity |-> ChainSelect(t, id),
                initial |-> db[t][id].version, k |-> 0]]
  /\ UNCHANGED <<scope, db, nextId, now, last, issued, won>>

\* the caller changes the name in its struct and passes the struct to Update;
\* it goes on with the struct as Update left it, and gives up on an error
ChainUpdate(p, name) ==
  /\ pc[p] = "holding" /\ CanWrite
  /\ now' = now + 1
  /\ LET c == call[p]
         t == c.t
         m == UpdateWhere(t, c.id, c.entity.version)
     IN IF m = {}
          THEN /\ Returns("Update", t, c.id, UpdateError(t, c.id),
                          c.entity.version, StoredVersion(t, c.id),
                          c.entity.version)
               /\ pc' = [pc EXCEPT ![p] = "idle"]
               /\ call' = [call EXCEPT ![p] = NoCall]
               /\ UNCHANGED <<db, won>>
          ELSE LET e   == IF t = "users" THEN [c.entity EXCEPT !.user_name = name]
                                         ELSE [c.entity EXCEPT !.name = name]
                   new == ChainUpdateSet(t, db[t][c.id], e, now + 1)
                   ent == UpdateScan(t, e, new)
               IN IF t = "users" /\ EmailTaken(c.id, e.email)
                    THEN /\ Returns("Update", t, c.id, ErrDuplicateEmail,
                                    c.entity.version, StoredVersion(t, c.id),
                                    c.entity.version)
                         /\ pc' = [pc EXCEPT ![p] = "idle"]
                         /\ call' = [call EXCEPT ![p] = NoCall]
                         /\ UNCHANGED <<db, won>>
                    ELSE /\ db' = Put(t, c.id, new)
                         /\ won' = won (+) SetToBag({<<t, c.id, c.entity.version>>})
                         /\ call' = [call EXCEPT ![p] =
                                      [c EXCEPT !.entity = ent, !.k = c.k + 1]]
                         /\ Returns("Update", t, c.id, OK, c.entity.version,
                                    StoredVersion(t, c.id), ent.version)
                         /\ UNCHANGED pc
  /\ UNCHANGED <<scope, nextId, issued>>

\* ------------------------------------------------- read, then Update
\* the tables with model methods that write a row besides Update
StatusTables == {"reservations", "payments", "parking_spots", "parking_sessions"}

\* the SET clause of table t's Update for the caller's struct e
HeldUpdateSet(t, row, e, ts) ==
  IF t = "reservations" THEN ReservationUpdateSet(row, e, ts)
  ELSE IF t = "payments" THEN PaymentUpdateSet(row, e, ts)
  ELSE IF t = "parking_spots" THEN ParkingSpotUpdateSet(row, e, ts)
  ELSE ParkingSessionUpdateSet(row, e, ts)

\* Get: a caller reads row id of table t into a struct, version included
HeldGet(p, t, id) ==
  /\ Idle(p) /\ t \in scope /\ t \in StatusTables
  /\ id \in DOMAIN db[t]
  /\ pc' = [pc EXCEPT ![p] = "read"]
  /\ call' = [call EXCEPT ![p] = [op |-> "Held", t |-> t, id |-> id,
                                  entity |-> db[t][id]]]
  /\ UNCHANGED <<scope, db, nextId, now, last, issued, won>>

\* the caller passes the struct it read to Update: every column of the SET
\* clause is written from the struct, WHERE id = $n AND version = $m with the
\* version read
HeldUpdate(p) ==
  /\ pc[p] = "read" /\ CanWrite
  /\ now' = now + 1
  /\ LET c == call[p]
         t == c.t
         m == UpdateWhere(t, c.id, c.entity.version)
     IN /\ IF m = {}
             THEN /\ Returns("Update", t, c.id, UpdateError(t, c.id),
                             c.entity.version, StoredVersion(t, c.id),
                             c.entity.version)
                  /\ UNCHANGED <<db, won>>
             ELSE /\ db' = Put(t, c.id,
                               HeldUpdateSet(t, db[t][c.id], c.entity, now + 1))
                  /\ won' = won (+) SetToBag({<<t, c.id, c.entity.version>>})
                  /\ Returns("Update", t, c.id, OK, c.entity.version,
                             StoredVersion(t, c.id), c.entity.version + 1)
  /\ pc' = [pc EXCEPT ![p] = "idle"]
  /\ call' = [call EXCEPT ![p] = NoCall]
  /\ UNCHANGED <<scope, nextId, issued>>

\* ------------------------------------------------------------- handlers
\* a pointer field of a PATCH body: << >> when the body leaves the field out
\* (nil), <<x>> when it gives x
Absent == << >>

\* what a request body can give as license_plate, as is_default and as email
BodyPlates   == Plates \cup {""}
PatchPlates  == {Absent} \cup {<<x>> : x \in BodyPlates}
PatchDefaults == {Absent, <<TRUE>>}
BodyEmails   == Emails \cup {""}
BodyNames    == {"bob"}

\* data.ValidateVehicle, for the column kept here: license_plate != ""
ValidateVehicle(vehicle) == vehicle.license_plate # ""

\* data.ValidateUser, that is ValidateEmail: email != ""
ValidateUser(user) == user.email # ""

\* a handler answers with helper response after dbcalls calls of the models;
\* stale tells whether the version the client had fetched is older than the one
\* the handler's own Get read, err is what the last model call returned,
\* duplicate whether the request ran into a stored plate or email, at the time
\* of the handler's last write statement (0: it made none)
Responds(op, response, dbcalls, stale, err, duplicate, at) ==
  last' = [op |-> op, response |-> response, dbcalls |-> dbcalls,
           stale |-> stale, err |-> err, duplicate |-> duplicate, at |-> at]

\* createVehicleHandler: the struct is built from the body and validated, then
\* Vehicles.Insert runs its INSERT
createVehicleHandler(p, userID, plate, isDefault) ==
  /\ Idle(p) /\ "vehicles" \in scope
  /\ LET vehicle == [user_id |-> userID, license_plate |-> plate,
                     is_default |-> isDefault]
         id == nextId["vehicles"]
     IN IF ~ValidateVehicle(vehicle)
          THEN /\ Responds("createVehicle", "failedValidationResponse", 0,
                           FALSE, OK, FALSE, 0)
               /\ UNCHANGED <<db, nextId, now, pc, call>>
          ELSE /\ CanWrite /\ id <= MaxRows
               /\ now' = now + 1
               /\ IF PlateTaken(0, plate)
                    THEN /\ Responds("createVehicle", "failedValidationResponse",
                                     1, FALSE, ErrDuplicateLicensePlate, TRUE,
                                     now + 1)
                         /\ UNCHANGED <<db, nextId, pc, call>>
                    ELSE /\ db' = Put("vehicles", id,
                                      vehicle @@ [version |-> 1,
                                                  updated_at |-> now + 1])
                         /\ nextId' = [nextId EXCEPT !["vehicles"] = id + 1]
                         /\ IF isDefault
                              THEN /\ pc' = [pc EXCEPT ![p] = "handlerUnset"]
                                   /\ call' = [call EXCEPT ![p] =
                                                [op |-> "createVehicle",
                                                 id |-> id, user_id |-> userID,
                                                 stale |-> FALSE,
                                                 dbcalls |-> 1]]
                                   /\ UNCHANGED last
                              ELSE /\ Responds("createVehicle", "writeJSON", 1,
                                               FALSE, OK, FALSE, now + 1)
                                   /\ UNCHANGED <<pc, call>>
  /\ UNCHANGED <<scope, issued, won>>

\* the end of Vehicles.Insert and Vehicles.Update for a default vehicle,
\* m.UnsetDefaultForUser(vehicle.UserID, vehicle.ID), and the handler's answer
handlerUnsetDefault(p) ==
  /\ pc[p] = "handlerUnset" /\ CanWrite
  /\ now' = now + 1
  /\ db' = UnsetDefaultForUser(call[p].user_id, call[p].id)
  /\ Responds(call[p].op, "writeJSON", call[p].dbcalls, call[p].stale, OK,
              FALSE, now + 1)
  /\ pc' = [pc EXCEPT ![p] = "idle"]
  /\ call' = [call EXCEPT ![p] = NoCall]
  /\ UNCHANGED <<scope, nextId, issued, won>>

\* the handlers' ownership check never rejecting
OwnedByAnyone(vehicle, userID) == vehicle.user_id # vehicle.user_id

\* if vehicle.UserID != user.ID { app.notPermittedResponse(w, r); return }
NotOwner(vehicle, userID) == vehicle.user_id # userID

\* updateVehicleHandler up to the validation: Vehicles.Get(id), the ownership
\* check, the body's fields copied over the struct that Get returned, and
\* ValidateVehicle.  The body has no version: seen, the version of the
\* representation the client built its request on, does not reach the handler.
updateVehicleGet(p, userID, id, plate, isDefault, seen) ==
  /\ Idle(p) /\ "vehicles" \in scope
  /\ seen = 1 \/ seen <= StoredVersion("vehicles", id)
  /\ LET got   == VehicleModelGet(id)
         stale == seen < StoredVersion("vehicles", id)
     IN
     IF got.err # OK
       THEN /\ Responds("updateVehicle", "notFoundResponse", 1, FALSE, got.err,
                        FALSE, 0)
            /\ UNCHANGED <<pc, call>>
     ELSE IF NotOwner(got.vehicle, userID)
       THEN /\ Responds("updateVehicle", "notPermittedResponse", 1, stale, OK,
                        FALSE, 0)
            /\ UNCHANGED <<pc, call>>
     ELSE LET vehicle ==
                [got.vehicle EXCEPT
                   !.license_plate = IF plate = Absent THEN @ ELSE plate[1],
                   !.is_default = IF isDefault = Absent THEN @ ELSE isDefault[1]]
          IN IF ~ValidateVehicle(vehicle)
               THEN /\ Responds("updateVehicle", "failedValidationResponse", 1,
                                stale, OK, FALSE, 0)
                    /\ UNCHANGED <<pc, call>>
               ELSE /\ pc' = [pc EXCEPT ![p] = "handlerUpdate"]
                    /\ call' = [call EXCEPT ![p] =
                                 [op |-> "updateVehicle", id |-> id,
                                  user_id |-> vehicle.user_id,
                                  vehicle |-> vehicle, stale |-> stale,
                                  dbcalls |-> 1]]
                    /\ UNCHANGED last
  /\ UNCHANGED <<scope, db, nextId, now, issued, won>>

\* updateVehicleHandler from Vehicles.Update(vehicle) on: the UPDATE with the
\* version that the handler's Get read, and the error switch
updateVehicleUpdate(p) ==
  /\ pc[p] = "handlerUpdate" /\ CanWrite
  /\ now' = now + 1
  /\ LET c == call[p]
         m == UpdateWhere("vehicles", c.id, c.vehicle.version)
     IN IF m = {} \/ PlateTaken(c.id, c.vehicle.license_plate)
          THEN /\ IF m = {}
                    THEN Responds(c.op, "editConflictResponse", 2, c.stale,
                                  UpdateError("vehicles", c.id), FALSE, now + 1)
                    ELSE Responds(c.op, "failedValidationResponse", 2, c.stale,
                                  ErrDuplicateLicensePlate, TRUE, now + 1)
               /\ pc' = [pc EXCEPT ![p] = "idle"]
               /\ call' = [call EXCEPT ![p] = NoCall]
               /\ UNCHANGED <<db, won>>
          ELSE /\ db' = Put("vehicles", c.id,
                            VehicleUpdateSet(db["vehicles"][c.id], c.vehicle,
                                             now + 1))
               /\ won' = won (+) SetToBag({<<"vehicles", c.id, c.vehicle.version>>})
               /\ IF c.vehicle.is_default
                    THEN /\ pc' = [pc EXCEPT ![p] = "handlerUnset"]
                         /\ call' = [call EXCEPT ![p] = [c EXCEPT !.dbcalls = 2]]
                         /\ UNCHANGED last
                    ELSE /\ Responds(c.op, "writeJSON", 2, c.stale, OK, FALSE,
                                     now + 1)
                         /\ pc' = [pc EXCEPT ![p] = "idle"]
                         /\ call' = [call EXCEPT ![p] = NoCall]
  /\ UNCHANGED <<scope, nextId, issued>>

\* showVehicleHandler: Vehicles.Get(id), the ownership check, writeJSON
showVehicleHandler(p, userID, id) ==
  /\ Idle(p) /\ "vehicles" \in scope
  /\ LET got == VehicleModelGet(id)
     IN Responds("showVehicle",
                 IF got.err # OK THEN "notFoundResponse"
                 ELSE IF NotOwner(got.vehicle, userID) THEN "notPermittedResponse"
                 ELSE "writeJSON",
                 1, FALSE, got.err, FALSE, 0)
  /\ UNCHANGED <<scope, db, nextId, now, pc, call, issued, won>>

\* deleteVehicleHandler and setDefaultVehicleHandler up to the ownership
\* check: Vehicles.Get(id), then vehicle.UserID != user.ID
ownedVehicleGet(p, op, userID, id, next) ==
  /\ Idle(p) /\ "vehicles" \in scope
  /\ LET got == VehicleModelGet(id)
     IN IF got.err # OK
          THEN /\ Responds(op, "notFoundResponse", 1, FALSE, got.err, FALSE, 0)
               /\ UNCHANGED <<pc, call>>
        ELSE IF NotOwner(got.vehicle, userID)
          THEN /\ Responds(op, "notPermittedResponse", 1, FALSE, OK, FALSE, 0)
               /\ UNCHANGED <<pc, call>>
        ELSE /\ pc' = [pc EXCEPT ![p] = next]
             /\ call' = [call EXCEPT ![p] = [op |-> op, id |-> id,
                                             user_id |-> userID]]
             /\ UNCHANGED last
  /\ UNCHANGED <<scope, db, nextId, now, issued, won>>

deleteVehicleGet(p, userID, id) ==
  ownedVehicleGet(p, "deleteVehicle", userID, id, "handlerDelete")

\* deleteVehicleHandler from Vehicles.Delete(id) on
deleteVehicleDelete(p) ==
  /\ pc[p] = "handlerDelete" /\ CanWrite
  /\ now' = now + 1
  /\ LET id == call[p].id
     IN IF id \in DOMAIN db["vehicles"]
          THEN /\ db' = Cascade("vehicles", id, Remove("vehicles", id))
               /\ Responds("deleteVehicle", "writeJSON", 2, FALSE, OK, FALSE,
                           now + 1)
          ELSE /\ UNCHANGED db
               /\ Responds("deleteVehicle", "notFoundResponse", 2, FALSE,
                           ErrRecordNotFound, FALSE, now + 1)
  /\ pc' = [pc EXCEPT ![p] = "idle"]
  /\ call' = [call EXCEPT ![p] = NoCall]
  /\ UNCHANGED <<scope, nextId, issued, won>>

setDefaultVehicleGet(p, userID, id) ==
  ownedVehicleGet(p, "setDefaultVehicle", userID, id, "handlerSetAsDefault")

\* setDefaultVehicleHandler, Vehicles.SetAsDefault(user.ID, id), first statement
setDefaultVehicleUnset(p) ==
  /\ pc[p] = "handlerSetAsDefault"
  /\ db' = UnsetDefaultForUser(call[p].user_id, 0)
  /\ pc' = [pc EXCEPT ![p] = "handlerSetDefault"]
  /\ UNCHANGED <<scope, nextId, now, call, last, issued, won>>

\* Vehicles.SetAsDefault(user.ID, id), second statement, and the error switch
setDefaultVehicleSet(p) ==
  /\ pc[p] = "handlerSetDefault"
  /\ LET id == call[p].id
         m  == {i \in DOMAIN db["vehicles"] :
                  i = id /\ db["vehicles"][i].user_id = call[p].user_id}
     IN IF m = {}
          THEN /\ Responds("setDefaultVehicle", "notFoundResponse", 2, FALSE,
                           ErrRecordNotFound, FALSE, now)
               /\ pc' = [pc EXCEPT ![p] = "idle"]
               /\ call' = [call EXCEPT ![p] = NoCall]
               /\ UNCHANGED db
          ELSE /\ db' = [db EXCEPT !["vehicles"][id].is_default = TRUE]
               /\ pc' = [pc EXCEPT ![p] = "handlerShow"]
               /\ UNCHANGED <<call, last>>
  /\ UNCHANGED <<scope, nextId, now, issued, won>>

\* setDefaultVehicleHandler's second Vehicles.Get(id) and its answer
setDefaultVehicleShow(p) ==
  /\ pc[p] = "handlerShow"
  /\ LET got == VehicleModelGet(call[p].id)
     IN Responds("setDefaultVehicle",
                 IF got.err # OK THEN "serverErrorResponse" ELSE "writeJSON",
                 3, FALSE, got.err, FALSE, now)
  /\ pc' = [pc EXCEPT ![p] = "idle"]
  /\ call' = [call EXCEPT ![p] = NoCall]
  /\ UNCHANGED <<scope, db, nextId, now, issued, won>>

\* registerUserHandler up to the validation: Users.GetByEmail(input.Email), the
\* user struct, ValidateUser
registerUserGetByEmail(p, name, email) ==
  /\ Idle(p) /\ "users" \in scope
  /\ IF EmailTaken(0, email)
       THEN /\ Responds("registerUser", "failedValidationResponse", 1, FALSE,
                        OK, TRUE, 0)
            /\ UNCHANGED <<pc, call>>
     ELSE IF ~ValidateUser([email |-> email, user_name |-> name])
       THEN /\ Responds("registerUser", "failedValidationResponse", 1, FALSE,
                        ErrRecordNotFound, FALSE, 0)
            /\ UNCHANGED <<pc, call>>
     ELSE /\ pc' = [pc EXCEPT ![p] = "registerInsert"]
          /\ call' = [call EXCEPT ![p] =
                       [op |-> "registerUser",
                        user |-> [email |-> email, user_name |-> name]]]
          /\ UNCHANGED last
  /\ UNCHANGED <<scope, db, nextId, now, issued, won>>

\* registerUserHandler from Users.Insert(user) on
registerUserInsert(p) ==
  /\ pc[p] = "registerInsert" /\ CanWrite
  /\ nextId["users"] <= MaxRows
  /\ now' = now + 1
  /\ LET user == call[p].user
         id   == nextId["users"]
     IN IF EmailTaken(0, user.email)
          THEN /\ Responds("registerUser", "failedValidationResponse", 2,
                           FALSE, ErrDuplicateEmail, TRUE, now + 1)
               /\ UNCHANGED <<db, nextId>>
          ELSE /\ db' = Put("users", id,
                            user @@ [version |-> 1, updated_at |-> now + 1])
               /\ nextId' = [nextId EXCEPT !["users"] = id + 1]
               /\ Responds("registerUser", "writeJSON", 2, FALSE, OK, FALSE,
                           now + 1)
  /\ pc' = [pc EXCEPT ![p] = "idle"]
  /\ call' = [call EXCEPT ![p] = NoCall]
  /\ UNCHANGED <<scope, issued, won>>

\* ------------------------------------------------------------- QR images
\* file names and paths are strings, kept as sequences of characters
Chars     == {"a", ".", "/"}
Separator == "/"
Dot       == <<".">>
DotDot    == <<".", ".">>
FileNames == UNION {[1..n -> Chars] : n \in 0..MaxName}

\* app.config.qr.storageDir: a relative directory below the working directory
StorageDir == <<"s", "/", "q">>

\* strings.Split(s, "/")
RECURSIVE Elements(_)
Elements(s) ==
  IF s = << >> THEN << << >> >>
  ELSE LET r == Elements(Tail(s))
       IN IF Head(s) = Separator
            THEN << << >> >> \o r
            ELSE << <<Head(s)>> \o Head(r) >> \o Tail(r)

\* strings.Join(elems, "/")
RECURSIVE Glue(_)
Glue(elems) ==
  IF elems = << >> THEN << >>
  ELSE IF Len(elems) = 1 THEN elems[1]
  ELSE elems[1] \o <<Separator>> \o Glue(Tail(elems))

\* the loop of filepath.Clean over the elements of a path: empty and "."
\* elements are dropped, ".." removes the element before it, stays when there
\* is none to remove and is dropped at the root
RECURSIVE Reduce(_, _, _)
Reduce(elems, out, rooted) ==
  IF elems = << >> THEN out
  ELSE LET e == Head(elems)
       IN IF e = << >> \/ e = Dot THEN Reduce(Tail(elems), out, rooted)
          ELSE IF e = DotDot
            THEN IF out # << >> /\ out[Len(out)] # DotDot
                   THEN Reduce(Tail(elems), SubSeq(out, 1, Len(out) - 1), rooted)
                 ELSE IF rooted THEN Reduce(Tail(elems), out, rooted)
                 ELSE Reduce(Tail(elems), Append(out, e), rooted)
          ELSE Reduce(Tail(elems), Append(out, e), rooted)

\* filepath.Clean
Clean(path) ==
  IF path = << >> THEN Dot
  ELSE LET rooted == path[1] = Separator
           body   == Glue(Reduce(Elements(path), << >>, rooted))
       IN IF rooted THEN <<Separator>> \o body
          ELSE IF body = << >> THEN Dot
          ELSE body

\* filepath.Join of two elements: empty elements are ignored, the rest is
\* joined with the separator and cleaned
Join(dir, name) ==
  IF dir = << >> /\ name = << >> THEN << >>
  ELSE IF dir = << >> THEN Clean(name)
  ELSE IF name = << >> THEN Clean(dir)
  ELSE Clean(dir \o <<Separator>> \o name)

\* path without its trailing separators
RECURSIVE StripSeparators(_)
StripSeparators(path) ==
  IF path # << >> /\ path[Len(path)] = Separator
    THEN StripSeparators(SubSeq(path, 1, Len(path) - 1))
    ELSE path

\* filepath.Base: the last element of the path; "." for the empty path, "/"
\* for a path of separators only
Base(path) ==
  IF path = << >> THEN Dot
  ELSE LET stripped == StripSeparators(path)
       IN IF stripped = << >> THEN <<Separator>>
          ELSE Elements(stripped)[Len(Elements(stripped))]

\* http.ServeFile's first check: the URL path, which ends in the requested
\* name, has an element ".."
containsDotDot(filename) ==
  \E i \in 1..Len(Elements(filename)) : Elements(filename)[i] = DotDot

\* serveQRImageHandler up to os.Stat(imagePath): the name check, the join
\* with the storage directory, and the Stat, which finds the path or not
serveQRImageStat(p, filename, exists) ==
  /\ Idle(p)
  /\ IF filename = << >> \/ Base(filename) # filename
       THEN /\ last' = [op |-> "serveQRImage", filename |-> filename,
                        response |-> "notFoundResponse", opened |-> << >>]
            /\ UNCHANGED <<pc, call>>
     ELSE LET imagePath == Join(StorageDir, filename)
          IN IF ~exists
               THEN /\ last' = [op |-> "serveQRImage", filename |-> filename,
                                response |-> "notFoundResponse",
                                opened |-> << >>]
                    /\ UNCHANGED <<pc, call>>
               ELSE /\ pc' = [pc EXCEPT ![p] = "ServeFile"]
                    /\ call' = [call EXCEPT ![p] =
                                 [op |-> "serveQRImage", filename |-> filename,
                                  imagePath |-> imagePath]]
                    /\ UNCHANGED last
  /\ UNCHANGED <<scope, db, nextId, now, issued, won>>

\* serveQRImageHandler's http.ServeFile(w, r, imagePath): a URL path with a
\* ".." element is answered 400; otherwise imagePath is opened, and what is
\* there (if it still is) is written out, a directory as the list of its
\* entries
serveQRImageServeFile(p, exists) ==
  /\ pc[p] = "ServeFile"
  /\ LET c == call[p]
     IN last' = [op |-> "serveQRImage", filename |-> c.filename,
                 response |-> IF containsDotDot(c.filename) THEN "Error400"
                              ELSE IF exists THEN "serveContent"
                              ELSE "Error404",
                 opened |-> IF containsDotDot(c.filename) THEN << >>
                            ELSE c.imagePath]
  /\ pc' = [pc EXCEPT ![p] = "idle"]
  /\ call' = [call EXCEPT ![p] = NoCall]
  /\ UNCHANGED <<scope, db, nextId, now, issued, won>>

\* ------------------------------------------------------------- bulk inserts
\* NotificationModel.BulkInsert and ParkingSpotModel.BulkCreate: BeginTx, one
\* INSERT per element inside the transaction, Commit; the deferred tx.Rollback
\* undoes the transaction on every return before a successful Commit.  A row
\* carries in tx the transaction that inserted it until that one commits;
\* other requests see the committed rows only.
BulkTables == {"notifications", "parking_spots"}

Committed == 0

ErrBadConn == "driver: bad connection"

BulkOp(t) == IF t = "notifications" THEN "BulkInsert" ELSE "BulkCreate"

\* the elements of the slice handed to the call
NotificationCols == [user_id : {1}, is_read : {FALSE}]
BulkCols(t) ==
  IF t = "notifications" THEN NotificationCols
  ELSE {x \in SpotCols : ~x.is_occupied}

\* the rows of t that every request sees
Visible(t) ==
  [i \in {j \in DOMAIN db[t] : db[t][j].tx = Committed} |-> db[t][i]]

\* the rows of t that transaction p has inserted and not committed
PendingOf(t, p) == {i \in DOMAIN db[t] : db[t][i].tx = p}

\* an INSERT sent outside the transaction is committed at once
InsertOutsideTx(t, p, id, cols) ==
  Put(t, id, cols @@ [version |-> 1, updated_at |-> now, tx |-> Committed])

\* stmt.ExecContext on the statement prepared in the transaction
InsertInTx(t, p, id, cols) ==
  Put(t, id, cols @@ [version |-> 1, updated_at |-> now, tx |-> p])

\* tx.Rollback
Rollback(t, p) ==
  [db EXCEPT ![t] = [i \in DOMAIN db[t] \ PendingOf(t, p) |-> db[t][i]]]

\* tx.Commit
Commit(t, p) ==
  [db EXCEPT ![t] = [i \in DOMAIN db[t] |->
                       IF db[t][i].tx = p
                         THEN [db[t][i] EXCEPT !.tx = Committed]
                         ELSE db[t][i]]]

\* UNIQUE(parking_lot_id, spot_number) against the rows in txs; notifications
\* has no unique column besides the id
BulkKeyTaken(t, cols, txs) ==
  /\ t = "parking_spots"
  /\ \E i \in DOMAIN db[t] :
       db[t][i].tx \in txs /\ db[t][i].spot_number = cols.spot_number

\* the call returns err; partial: it is an error and comes after at least one
\* of the call's INSERTs had succeeded
BulkReturns(p, err, done) ==
  /\ last' = [op |-> BulkOp(call[p].t), t |-> call[p].t, result |-> err,
              partial |-> (err # OK /\ done >= 1)]
  /\ pc' = [pc EXCEPT ![p] = "idle"]
  /\ call' = [call EXCEPT ![p] = NoCall]

\* m.DB.BeginTx and tx.PrepareContext.  The slice the call was handed is read
\* by the loop only, one element a turn, so its elements are drawn as the
\* loop reaches them and its end when the loop leaves
BulkBeginTx(p, t, ok) ==
  /\ Idle(p) /\ t \in BulkTables \cap scope
  /\ IF ok
       THEN /\ pc' = [pc EXCEPT ![p] = "BulkExec"]
            /\ call' = [call EXCEPT ![p] = [op |-> BulkOp(t), t |-> t,
                                            done |-> 0]]
            /\ UNCHANGED last
       ELSE /\ last' = [op |-> BulkOp(t), t |-> t, result |-> ErrBadConn,
                        partial |-> FALSE]
            /\ UNCHANGED <<pc, call>>
  /\ UNCHANGED <<scope, db, nextId, now, issued, won>>

\* one turn of the loop: the INSERT of the next element, cols (done is the
\* number of turns made).  It fails on a key that a
\* committed row or a row of this transaction has, waits while another open
\* transaction holds the key, and can fail for the connection or the context;
\* on failure the call returns and the deferred Rollback runs
BulkExecContext(p, cols, ok) ==
  /\ pc[p] = "BulkExec" /\ call[p].done < MaxBatch
  /\ cols \in BulkCols(call[p].t)
  /\ LET t == call[p].t
     IN IF BulkKeyTaken(t, cols, {Committed, p})
          THEN /\ BulkReturns(p, ErrUniqueViolation, call[p].done)
               /\ db' = Rollback(t, p)
               /\ UNCHANGED nextId
        ELSE IF ~ok
          THEN /\ BulkReturns(p, ErrBadConn, call[p].done)
               /\ db' = Rollback(t, p)
               /\ UNCHANGED nextId
        ELSE /\ ~BulkKeyTaken(t, cols, Procs \ {p})
             /\ nextId[t] <= MaxRows
             /\ db' = InsertInTx(t, p, nextId[t], cols)
             /\ nextId' = [nextId EXCEPT ![t] = @ + 1]
             /\ call' = [call EXCEPT ![p].done = @ + 1]
             /\ UNCHANGED <<pc, last>>
  /\ UNCHANGED <<scope, now, issued, won>>

\* return tx.Commit(): the rows become visible together, or the commit fails
\* and the transaction is gone
BulkCommit(p, ok) ==
  /\ pc[p] = "BulkExec"
  /\ BulkReturns(p, IF ok THEN OK ELSE ErrBadConn, call[p].done)
  /\ db' = IF ok THEN Commit(call[p].t, p) ELSE Rollback(call[p].t, p)
  /\ UNCHANGED <<scope, nextId, now, issued, won>>

\* ------------------------------------------------------------- the system
EmptyTable == [i \in {} |-> 0]

InitCommon ==
  /\ db = [t \in Tables |-> EmptyTable]
  /\ nextId = [t \in Tables |-> 1]
  /\ now = 1
  /\ pc = [p \in Procs |-> "idle"]
  /\ call = [p \in Procs |-> NoCall]
  /\ last = NoRet
  /\ won = EmptyBag
  /\ issued = EmptyTable

\* one versioned table at a time: no model method of one table writes another
Init ==
  /\ scope \in {{t} : t \in VersionedTables}
  /\ InitCommon

\* Insert, Update and Delete of the eight versioned models
NextCrud ==
  \/ \E t \in VersionedTables, id \in Ids : Delete(t, id)
  \/ UserModalInsert
  \/ UserModalUpdate
  \/ \E p \in Procs : VehicleModelInsert(p)
  \/ \E p \in Procs : VehicleModelUpdate(p)
  \/ \E p \in Procs : VehicleUnsetDefault(p)
  \/ ParkingLotModelInsert
  \/ ParkingLotModelUpdate
  \/ ReviewModelInsert
  \/ ReviewModelUpdate
  \/ ParkingSpotModelInsert
  \/ ParkingSpotModelUpdate
  \/ ReservationModelInsert
  \/ ReservationModelUpdate
  \/ PaymentModelInsert
  \/ PaymentModelUpdate
  \/ ParkingSessionModelInsert
  \/ ParkingSessionModelUpdate

\* the other model methods that write a versioned row
NextOps ==
  \/ \E p \in Procs, u \in UserIds, id \in Ids : VehicleSetAsDefaultUnset(p, u, id)
  \/ \E p \in Procs : VehicleSetAsDefaultSet(p)
  \/ \E id \in Ids, b \in BOOLEAN : ParkingSpotModelSetOccupied(id, b)
  \/ \E id \in Ids, b \in BOOLEAN : ParkingSpotModelSetReserved(id, b)
  \/ \E id \in Ids :
       ReservationModelUpdateStatus(id, ReservationStatusConfirmed)
  \/ \E id \in Ids : ReservationModelCheckIn(id)
  \/ \E id \in Ids : ReservationModelCheckOut(id)
  \/ \E id \in Ids : ReservationModelCancel(id)
  \/ ReservationModelExpireOverdue
  \/ \E id \in Ids, tx \in TxIds :
       PaymentModelUpdateStatus(id, PaymentStatusCompleted, tx)
  \/ \E p \in Procs, id \in Ids, a \in Amounts : SessionCheckOutSelect(p, id, a)
  \/ \E p \in Procs : SessionCheckOutUpdate(p)
  \/ \E id \in Ids : ParkingSessionModelMarkAsViolation(id)

Next == NextCrud \/ NextOps

Spec == Init /\ [][Next]_vars

\* the versioned models restricted to Insert, Update and Delete
SpecCrud == Init /\ [][NextCrud]_vars

\* the QR code service over the users, vehicles and qr_codes tables, with two
\* users who own one vehicle each
InitQR ==
  /\ scope = {"users", "vehicles", "qr_codes"}
  /\ db = [t \in Tables |->
             IF t = "users"
               THEN [i \in UserIds |->
                       [email |-> IF i = 1 THEN "a@x" ELSE "b@x",
                        user_name |-> IF i = 1 THEN "ann" ELSE "bob",
                        version |-> 1, updated_at |-> 1]]
             ELSE IF t = "vehicles"
               THEN [i \in UserIds |->
                       [user_id |-> i,
                        license_plate |-> IF i = 1 THEN "P1" ELSE "P0",
                        is_default |-> FALSE, version |-> 1, updated_at |-> 1]]
             ELSE EmptyTable]
  /\ nextId = [t \in Tables |-> IF t \in {"users", "vehicles"} THEN 3 ELSE 1]
  /\ now = 1
  /\ pc = [p \in Procs |-> "idle"]
  /\ call = [p \in Procs |-> NoCall]
  /\ last = NoRet
  /\ won = EmptyBag
  /\ issued = EmptyTable

NextQR ==
  \/ Tick
  \/ \E p \in Procs, u \in Issuers, v \in Ids, h \in TTLs, s \in Purposes,
        c \in GenCodes : GenerateDeactivate(p, u, v, h, s, c)
  \/ \E p \in Procs, w \in BOOLEAN : GenerateInsert(p, w)
  \/ \E c \in Codes : Verify(c)
  \/ CleanupExpired
  \/ UserModalUpdateRead
  \/ VehicleModelUpdateRead
  \/ \E id \in DOMAIN db["vehicles"] :
       db["vehicles"][id].user_id \in Issuers /\ Delete("vehicles", id)

SpecQR == InitQR /\ [][NextQR]_vars

\* callers that chain Updates of a users or a parking_lots row, among callers
\* that insert, update and delete rows of the same table
InitChain ==
  /\ scope \in {{t} : t \in ChainTables}
  /\ InitCommon

NextChain ==
  \/ UserModalInsert
  \/ UserModalUpdate
  \/ ParkingLotModelInsert
  \/ ParkingLotModelUpdate
  \/ \E id \in Ids : Delete("parking_lots", id)
  \/ \E p \in Procs, t \in ChainTables, id \in Ids : ChainGet(p, t, id)
  \/ \E p \in Procs, name \in Names : ChainUpdate(p, name)

SpecChain == InitChain /\ [][NextChain]_vars

\* the handlers that register users, create and update vehicles and generate
\* QR codes, serving concurrent requests; one user with one vehicle to begin
InitApi ==
  /\ scope = {"users", "vehicles"}
  /\ db = [t \in Tables |->
             IF t = "users"
               THEN [i \in {1} |-> [email |-> "a@x", user_name |-> "ann",
                                     version |-> 1, updated_at |-> 1]]
             ELSE IF t = "vehicles"
               THEN [i \in {1} |-> [user_id |-> 1, license_plate |-> "P1",
                                     is_default |-> FALSE, version |-> 1,
                                     updated_at |-> 1]]
             ELSE EmptyTable]
  /\ nextId = [t \in Tables |-> IF t \in {"users", "vehicles"} THEN 2 ELSE 1]
  /\ now = 1
  /\ pc = [p \in Procs |-> "idle"]
  /\ call = [p \in Procs |-> NoCall]
  /\ last = NoRet
  /\ won = EmptyBag
  /\ issued = EmptyTable

NextApi ==
  \/ \E p \in Procs, u \in DOMAIN db["users"], plate \in BodyPlates,
        d \in BOOLEAN : createVehicleHandler(p, u, plate, d)
  \/ \E p \in Procs : handlerUnsetDefault(p)
  \/ \E p \in Procs, u \in DOMAIN db["users"], id \in Ids,
        plate \in PatchPlates, d \in PatchDefaults, seen \in Versions :
       updateVehicleGet(p, u, id, plate, d, seen)
  \/ \E p \in Procs : updateVehicleUpdate(p)
  \/ \E p \in Procs, name \in BodyNames, email \in BodyEmails :
       registerUserGetByEmail(p, name, email)
  \/ \E p \in Procs : registerUserInsert(p)
  \/ \E p \in Procs, u \in DOMAIN db["users"], v \in Ids, h \in TTLs,
        s \in RequestPurposes, c \in GenCodes :
       generateQRCodeHandler(p, u, v, h, s, c)

SpecApi == InitApi /\ [][NextApi]_vars

\* callers that read a row and update it later, beside the methods that write
\* a status or a flag
InitHeld ==
  /\ scope \in {{t} : t \in StatusTables}
  /\ InitCommon

NextHeld ==
  \/ ReservationModelInsert
  \/ PaymentModelInsert
  \/ ParkingSpotModelInsert
  \/ ParkingSessionModelInsert
  \/ \E p \in Procs, t \in StatusTables, id \in Ids : HeldGet(p, t, id)
  \/ \E p \in Procs : HeldUpdate(p)
  \/ \E id \in Ids, b \in BOOLEAN : ParkingSpotModelSetOccupied(id, b)
  \/ \E id \in Ids, b \in BOOLEAN : ParkingSpotModelSetReserved(id, b)
  \/ \E id \in Ids :
       ReservationModelUpdateStatus(id, ReservationStatusConfirmed)
  \/ \E id \in Ids : ReservationModelCheckIn(id)
  \/ \E id \in Ids : ReservationModelCheckOut(id)
  \/ \E id \in Ids : ReservationModelCancel(id)
  \/ ReservationModelExpireOverdue
  \/ \E id \in Ids, tx \in TxIds :
       PaymentModelUpdateStatus(id, PaymentStatusCompleted, tx)
  \/ \E p \in Procs, id \in Ids, a \in Amounts : SessionCheckOutSelect(p, id, a)
  \/ \E p \in Procs : SessionCheckOutUpdate(p)
  \/ \E id \in Ids : ParkingSessionModelMarkAsViolation(id)

SpecHeld == InitHeld /\ [][NextHeld]_vars

\* issuance for user 1, who has two vehicles, beside a code of user 2 that
\* was issued before
InitFrame ==
  LET users == [i \in UserIds |->
                  [email |-> IF i = 1 THEN "a@x" ELSE "b@x",
                   user_name |-> IF i = 1 THEN "ann" ELSE "bob",
                   version |-> 1, updated_at |-> 1]]
      vehicles == [i \in 1..3 |->
                     [user_id |-> IF i = 3 THEN 2 ELSE 1,
                      license_plate |-> IF i = 3 THEN "P0"
                                        ELSE IF i = 1 THEN "P1" ELSE "P2",
                      is_default |-> FALSE, version |-> 1, updated_at |-> 1]]
      qrData == QRCodeData(2, users[2], 3, vehicles[3], "k0", 1, MaxClock,
                           "parking")
  IN
  /\ scope = {"users", "vehicles", "qr_codes"}
  /\ db = [t \in Tables |->
             IF t = "users" THEN users
             ELSE IF t = "vehicles" THEN vehicles
             ELSE IF t = "qr_codes"
               THEN [i \in {0} |->
                       [user_id |-> 2, vehicle_id |-> 3, code |-> "k0",
                        data |-> Marshal(qrData), expires_at |-> MaxClock,
                        is_active |-> TRUE, unswept |-> TRUE, version |-> 1]]
             ELSE EmptyTable]
  /\ nextId = [t \in Tables |-> IF t = "users" THEN 3
                                ELSE IF t = "vehicles" THEN 4 ELSE 1]
  /\ now = 1
  /\ pc = [p \in Procs |-> "idle"]
  /\ call = [p \in Procs |-> NoCall]
  /\ last = NoRet
  /\ won = EmptyBag
  /\ issued = EmptyTable

NextFrame ==
  \/ Tick
  \/ \E p \in Procs, u \in Issuers, v \in DOMAIN db["vehicles"], h \in TTLs,
        s \in Purposes, c \in GenCodes : GenerateDeactivate(p, u, v, h, s, c)
  \/ \E p \in Procs, w \in BOOLEAN : GenerateInsert(p, w)
  \/ \E c \in Codes : Verify(c)

SpecFrame == InitFrame /\ [][NextFrame]_vars

\* stored reservations, as Insert leaves them, and the four lifecycle methods
StoredReservations(statuses) ==
  [1..MaxRows -> [end_time : EndTimes, status : statuses,
                  actual_start_time : {NULL}, actual_end_time : {NULL},
                  version : {1}, updated_at : {1}]]

InitLifecycle ==
  /\ scope = {"reservations"}
  /\ now = 1
  /\ pc = [p \in Procs |-> "idle"]
  /\ call = [p \in Procs |-> NoCall]
  /\ last = NoRet
  /\ won = EmptyBag
  /\ issued = EmptyTable
  /\ \E rows \in StoredReservations({ReservationStatusPending,
                                     ReservationStatusConfirmed}) :
       db = [t \in Tables |-> IF t = "reservations" THEN rows ELSE EmptyTable]
  /\ nextId = [t \in Tables |-> IF t = "reservations" THEN MaxRows + 1 ELSE 1]

NextLifecycle ==
  \/ Tick
  \/ \E id \in Ids : ReservationModelCheckIn(id)
  \/ \E id \in Ids : ReservationModelCheckOut(id)
  \/ \E id \in Ids : ReservationModelCancel(id)
  \/ ReservationModelExpireOverdue

SpecLifecycle == InitLifecycle /\ [][NextLifecycle]_vars

\* CheckIn, Cancel and ExpireOverdue on confirmed reservations, in every order
InitRace ==
  /\ scope = {"reservations"}
  /\ now = 1
  /\ pc = [p \in Procs |-> "idle"]
  /\ call = [p \in Procs |-> NoCall]
  /\ last = NoRet
  /\ won = EmptyBag
  /\ issued = EmptyTable
  /\ \E rows \in StoredReservations({ReservationStatusConfirmed}) :
       db = [t \in Tables |-> IF t = "reservations" THEN rows ELSE EmptyTable]
  /\ nextId = [t \in Tables |-> IF t = "reservations" THEN MaxRows + 1 ELSE 1]

NextRace ==
  \/ Tick
  \/ \E id \in Ids : ReservationModelCheckIn(id)
  \/ \E id \in Ids : ReservationModelCancel(id)
  \/ ReservationModelExpireOverdue

SpecRace == InitRace /\ [][NextRace]_vars

\* stored active sessions, as Insert leaves them, with CheckOut and
\* MarkAsViolation
InitSession ==
  /\ scope = {"parking_sessions"}
  /\ db = [t \in Tables |->
             IF t = "parking_sessions"
               THEN [i \in 1..MaxRows |->
                       [check_in_time |-> 1, check_out_time |-> NULL,
                        status |-> SessionStatusActive, total_duration |-> NULL,
                        total_amount |-> NULL, version |-> 1, updated_at |-> 1]]
               ELSE EmptyTable]
  /\ nextId = [t \in Tables |-> IF t = "parking_sessions" THEN MaxRows + 1 ELSE 1]
  /\ now = 1
  /\ pc = [p \in Procs |-> "idle"]
  /\ call = [p \in Procs |-> NoCall]
  /\ last = NoRet
  /\ won = EmptyBag
  /\ issued = EmptyTable

NextSession ==
  \/ Tick
  \/ \E p \in Procs, id \in Ids, a \in Amounts : SessionCheckOutSelect(p, id, a)
  \/ \E p \in Procs : SessionCheckOutUpdate(p)
  \/ \E id \in Ids : ParkingSessionModelMarkAsViolation(id)

SpecSession == InitSession /\ [][NextSession]_vars

\* the vehicle endpoints with a vehicle of each of two users stored; the
\* requests are those of user 1, on either vehicle, and update requests give
\* is_default or nothing
Requesters == {1}
RequestedIds == UserIds     \* vehicle i is the one stored for user i

InitOwner ==
  /\ scope = {"users", "vehicles"}
  /\ db = [t \in Tables |->
             IF t = "users"
               THEN [i \in UserIds |->
                       [email |-> IF i = 1 THEN "a@x" ELSE "b@x",
                        user_name |-> IF i = 1 THEN "ann" ELSE "bob",
                        version |-> 1, updated_at |-> 1]]
             ELSE IF t = "vehicles"
               THEN [i \in UserIds |->
                       [user_id |-> i,
                        license_plate |-> IF i = 1 THEN "P1" ELSE "P2",
                        is_default |-> TRUE, version |-> 1, updated_at |-> 1]]
             ELSE EmptyTable]
  /\ nextId = [t \in Tables |-> IF t \in {"users", "vehicles"} THEN 3 ELSE 1]
  /\ now = 1
  /\ pc = [p \in Procs |-> "idle"]
  /\ call = [p \in Procs |-> NoCall]
  /\ last = NoRet
  /\ won = EmptyBag
  /\ issued = EmptyTable

NextOwner ==
  \/ \E p \in Procs, u \in Requesters, id \in RequestedIds : showVehicleHandler(p, u, id)
  \/ \E p \in Procs, u \in Requesters, id \in RequestedIds, d \in PatchDefaults :
       updateVehicleGet(p, u, id, Absent, d, 1)
  \/ \E p \in Procs : updateVehicleUpdate(p)
  \/ \E p \in Procs : handlerUnsetDefault(p)
  \/ \E p \in Procs, u \in Requesters, id \in RequestedIds : deleteVehicleGet(p, u, id)
  \/ \E p \in Procs : deleteVehicleDelete(p)
  \/ \E p \in Procs, u \in Requesters, id \in RequestedIds : setDefaultVehicleGet(p, u, id)
  \/ \E p \in Procs : setDefaultVehicleUnset(p)
  \/ \E p \in Procs : setDefaultVehicleSet(p)
  \/ \E p \in Procs : setDefaultVehicleShow(p)

SpecOwner == InitOwner /\ [][NextOwner]_vars

\* bulk inserts into one of the two tables
InitBulk ==
  /\ scope \in {{t} : t \in BulkTables}
  /\ InitCommon

NextBulk ==
  \/ \E p \in Procs, t \in BulkTables, ok \in BOOLEAN : BulkBeginTx(p, t, ok)
  \/ \E p \in Procs, cols \in NotificationCols \cup SpotCols, ok \in BOOLEAN :
       BulkExecContext(p, cols, ok)
  \/ \E p \in Procs, ok \in BOOLEAN : BulkCommit(p, ok)

SpecBulk == InitBulk /\ [][NextBulk]_vars

\* requests for QR images
InitFiles ==
  /\ scope = {}
  /\ InitCommon

NextFiles ==
  \/ \E p \in Procs, filename \in FileNames, exists \in BOOLEAN :
       serveQRImageStat(p, filename, exists)
  \/ \E p \in Procs, exists \in BOOLEAN : serveQRImageServeFile(p, exists)

SpecFiles == InitFiles /\ [][NextFiles]_vars

\* ------------------------------------------------------------- properties
\* the step is the return of a call of op
Returned(op) == last'.at # last.at /\ last'.op = op

\* C1: for every versioned entity, an Update whose struct carries a version
\* different from the one stored in the row returns ErrEditConflict and leaves
\* every column of the row, version and updated_at included, as it was.
C1_StaleUpdateIsEditConflict ==
  [][(Returned("Update") /\ last'.stored # 0 /\ last'.expected # last'.stored)
       => (last'.result = ErrEditConflict /\ db' = db)]_vars

\* an Update of an existing row with another version has returned
C1_Witness ==
  /\ last.op = "Update" /\ last.result = ErrEditConflict
  /\ last.stored # 0 /\ last.expected # last.stored
  /\ last.id \in DOMAIN db[last.t]
  /\ db[last.t][last.id].version = last.stored

\* C2: for every versioned entity, users included, an Update carrying the
\* stored version returns nil unless a unique constraint rejects it, makes the
\* stored version exactly one greater, and sets the stored updated_at to a
\* strictly later value of the clock that ticks once per statement.
C2_CurrentVersionUpdateAdvances ==
  [][\A t \in VersionedTables, id \in Ids :
       /\ (Returned("Update") /\ pc' = pc /\ last'.t = t /\ last'.id = id
            /\ last'.stored # 0 /\ last'.expected = last'.stored
            /\ last'.result \notin {ErrDuplicateEmail, ErrDuplicateLicensePlate,
                                    ErrUniqueViolation}) =>
             (last'.result = OK /\ won' # won)
       /\ (id \in DOMAIN db[t] /\ won' # won
            /\ BagIn(<<t, id, db[t][id].version>>, won')
            /\ ~BagIn(<<t, id, db[t][id].version>>, won)) =>
             (/\ db'[t][id].version = db[t][id].version + 1
              /\ db'[t][id].updated_at > db[t][id].updated_at)]_vars

C10_UpdateOfDeletedRowIsEditConflict ==
  [][(Returned("Update") /\ last'.id < nextId[last'.t] /\ last'.stored = 0)
       => (last'.result = ErrEditConflict /\ db' = db)]_vars

\* an Update of a row that was inserted and then deleted has returned
C10_Witness ==
  /\ last.op = "Update" /\ last.stored = 0
  /\ last.id < nextId[last.t] /\ last.id \notin DOMAIN db[last.t]
  /\ last.result = ErrEditConflict

\* C9: a versioned row is created with version 1, and every step of a model
\* method that changes a field of a stored row increments that row's version by
\* exactly one, so that version is 1 plus the number of modifications.
C9_VersionCountsModifications ==
  [][\A t \in VersionedTables, id \in Ids :
       /\ (id \in DOMAIN db'[t] /\ id \notin DOMAIN db[t]) =>
             db'[t][id].version = 1
       /\ (id \in DOMAIN db'[t] /\ id \in DOMAIN db[t]
            /\ db'[t][id] # db[t][id]) =>
             db'[t][id].version = db[t][id].version + 1]_vars

\* the row of qr_codes that holds code c, as a set: code is UNIQUE
RowsOf(c) == {i \in DOMAIN QR : QR[i].code = c}

\* the response of the verify endpoint to a code it does not accept
NotFoundResponse ==
  [status |-> 404, message |-> "QR code not found or expired",
   qr_data |-> ZeroQRCodeData]

\* C4: once no GenerateQRCode call of user u is in progress, at most one
\* qr_codes row of u has is_active = true, and it is the row inserted last.
C4_AtMostOneActiveCode ==
  \A u \in UserIds :
    (\A p \in Procs : ~(call[p].op = "Generate" /\ call[p].user_id = u)) =>
      LET R == {i \in DOMAIN QR : QR[i].user_id = u}
          A == {i \in R : QR[i].is_active}
      IN Cardinality(A) <= 1 /\ \A i \in A : \A j \in R : j <= i

\* C5: VerifyQRCode of a code whose expires_at is at or before the current time
\* returns ErrRecordNotFound, also while the row has is_active = true.
C5_ExpiredCodeIsNotFound ==
  \A c \in Codes :
    (\E i \in RowsOf(c) : QR[i].expires_at <= now) =>
      /\ VerifyQRCode(c).err = ErrRecordNotFound
      /\ verifyQRCodeHandler(c).status = 404

\* a code has expired and its row is still active
C5_Witness ==
  \E i \in DOMAIN QR : QR[i].is_active /\ QR[i].expires_at <= now

C7_VerifyReturnsIssuedPayload ==
  \A c \in DOMAIN issued :
    (VerifyQRCode(c).err = OK /\ issued[c].id \in RowsOf(c)) =>
      /\ VerifyQRCode(c).data = issued[c].data
      /\ verifyQRCodeHandler(c).qr_data = issued[c].data

\* a code verifies after its user's name or its vehicle's plate was changed
C7_Witness ==
  \E c \in DOMAIN issued :
    /\ VerifyQRCode(c).err = OK /\ issued[c].id \in RowsOf(c)
    /\ LET d == issued[c].data IN
       /\ d.user_profile.id \in DOMAIN db["users"]
       /\ d.vehicle.id \in DOMAIN db["vehicles"]
       /\ \/ db["users"][d.user_profile.id].user_name # d.user_profile.username
          \/ db["vehicles"][d.vehicle.id].license_plate
               # d.vehicle.license_plate

\* C8: a code that was never issued, one that has expired and one that was
\* deactivated get the same result: ErrRecordNotFound with no payload from
\* VerifyQRCode, and one and the same 404 response from the endpoint.
C8_NotFoundIsUniform ==
  \A c \in Codes :
    (\/ RowsOf(c) = {}
     \/ \E i \in RowsOf(c) : QR[i].expires_at <= now
     \/ \E i \in RowsOf(c) : ~QR[i].is_active) =>
      /\ VerifyQRCode(c) = [err |-> ErrRecordNotFound, data |-> ZeroQRCodeData]
      /\ verifyQRCodeHandler(c) = NotFoundResponse

\* the three cases at once: a code with no row, a deactivated one and an
\* expired one that is still active
C8_Witness ==
  /\ \E c \in Codes : RowsOf(c) = {}
  /\ \E i \in DOMAIN QR : ~QR[i].is_active
  /\ \E i \in DOMAIN QR : QR[i].is_active /\ QR[i].expires_at <= now

\* no Update of another caller has matched the row that caller p chains its
\* Updates on, and the row is there: every match adds one to version
Untouched(p) ==
  /\ call[p].id \in DOMAIN db[call[p].t]
  /\ db[call[p].t][call[p].id].version = call[p].initial + call[p].k

\* C11: a successful Update leaves the stored version and updated_at in the
\* caller's struct, so while no other writer touches the row every Update the
\* caller makes with the struct the previous one left returns nil, and the k-th
\* of them leaves the stored version at the initial version plus k.
C11_ChainOfUpdatesSucceeds ==
  /\ [](\A p \in Procs :
          (pc[p] = "holding" /\ call[p].k >= 1 /\ Untouched(p)) =>
          /\ call[p].entity.version = db[call[p].t][call[p].id].version
          /\ call[p].entity.updated_at = db[call[p].t][call[p].id].updated_at)
  /\ [][\A p \in Procs :
          (pc[p] = "holding" /\ Untouched(p) /\ last' # last
            /\ (pc'[p] # pc[p] \/ call'[p] # call[p])) =>
             /\ last'.result = OK
             /\ pc'[p] = "holding" /\ call'[p].k = call[p].k + 1
             /\ db'[call[p].t][call[p].id].version
                  = call[p].initial + call[p].k + 1]_vars

\* a caller has made two Updates in a row of a row nobody else has touched
C11_Witness ==
  \E p \in Procs :
    /\ pc[p] = "holding" /\ call[p].k >= 2 /\ Untouched(p)
    /\ last.op = "Update" /\ last.result = OK /\ last.id = call[p].id

\* C12: a PATCH /v1/vehicles/:id from a client whose fetched version is older
\* than the stored one (another client's update succeeded in between) is not
\* answered with the updated vehicle: it does not overwrite that change.
C12_StalePatchIsEditConflict ==
  (last.op = "updateVehicle" /\ last.stale) => last.response # "writeJSON"

\* C13: GenerateQRCode for a vehicle that is not there or is not the
\* requesting user's (the call returns after its second read, Vehicles.Get)
\* returns an error, the handler answers notFoundResponse, and no qr_codes row
\* is inserted or deactivated.
C13_ForeignVehicleIsNotFound ==
  [][(last' # last /\ last'.op = "Generate" /\ last'.dbcalls = 2) =>
       (/\ last'.result # Nil
        /\ last'.response = "notFoundResponse"
        /\ db' = db /\ nextId' = nextId)]_vars

\* row i of qr_codes is one that GetByCode can select
Live(i) == QR[i].is_active /\ QR[i].expires_at > now

\* C14: a qr_codes row is inserted with is_active = true under an id never used
\* before; no step sets is_active of a row from false to true, moves its
\* expires_at later or gives it another code, and the clock does not go back;
\* so a code whose row VerifyQRCode does not accept is not accepted after the
\* next step either.
C14_CodeLifecycleIsOneWay ==
  [][/\ now' >= now
     /\ \A i \in DOMAIN db'["qr_codes"] :
          IF i \in DOMAIN QR
            THEN /\ db'["qr_codes"][i].is_active => QR[i].is_active
                 /\ db'["qr_codes"][i].expires_at <= QR[i].expires_at
                 /\ db'["qr_codes"][i].code = QR[i].code
                 /\ ~Live(i) => ~Live(i)'
            ELSE /\ db'["qr_codes"][i].is_active
                 /\ i = nextId["qr_codes"] /\ i < nextId'["qr_codes"]
     /\ \A c \in Codes :
          (RowsOf(c) # {} /\ VerifyQRCode(c).err = ErrRecordNotFound) =>
             VerifyQRCode(c)'.err = ErrRecordNotFound]_vars

\* a deactivated code that has not expired is stored beside the active code
\* that replaced it
C14_Witness ==
  \E i \in DOMAIN QR, j \in DOMAIN QR :
    /\ i < j /\ ~QR[i].is_active /\ QR[i].expires_at > now /\ Live(j)
    /\ VerifyQRCode(QR[i].code).err = ErrRecordNotFound

\* C15: GetByCode (so VerifyQRCode) and GetActiveForUser select the rows they
\* select in the same run without its CleanupExpired calls, and the calls of
\* CleanupExpired have changed nothing but is_active, to false, on rows with
\* expires_at <= now.
C15_CleanupIsAdvisory ==
  /\ \A c \in Codes :
       GetByCode(c) = {i \in DOMAIN QR : /\ QR[i].code = c
                                          /\ QR[i].unswept
                                          /\ QR[i].expires_at > now}
  /\ \A u \in UserIds :
       GetActiveForUser(u) = {i \in DOMAIN QR : /\ QR[i].user_id = u
                                                /\ QR[i].unswept
                                                /\ QR[i].expires_at > now}
  /\ \A i \in DOMAIN QR :
       QR[i].is_active # QR[i].unswept =>
         (QR[i].unswept /\ QR[i].expires_at <= now)

\* CleanupExpired has deactivated an expired row that no issuance had
\* deactivated
C15_Witness ==
  \E i \in DOMAIN QR :
    QR[i].unswept /\ ~QR[i].is_active /\ QR[i].expires_at <= now

\* a path directly below the storage directory: the directory, a separator
\* and one element that is neither "." nor ".."
DirectChild(path) ==
  \E f \in FileNames :
    /\ f # << >> /\ f # Dot /\ f # DotDot
    /\ \A i \in 1..Len(f) : f[i] # Separator
    /\ path = StorageDir \o <<Separator>> \o f

\* C16: a request for an empty name, a name with a separator or the name ".."
\* is answered with notFoundResponse, and a path that http.ServeFile opens is
\* directly below the storage directory.
C16_OnlyBareFileNamesAreServed ==
  last.op = "serveQRImage" =>
    /\ (\/ last.filename = << >>
        \/ \E i \in 1..Len(last.filename) : last.filename[i] = Separator
        \/ last.filename = DotDot) => last.response = "notFoundResponse"
    /\ last.opened # << >> => DirectChild(last.opened)

\* C17: the rows other requests see in notifications and parking_spots change
\* only when a BulkInsert or BulkCreate returns nil, and then by exactly the
\* rows of that call, one for each element; when the call returns an error,
\* after any number of its INSERTs, the visible rows stay as they were; and
\* after the return no row of the call's transaction is left uncommitted.
C17_BulkIsAllOrNothing ==
  [][\A t \in BulkTables :
       /\ Visible(t)' # Visible(t) =>
            \E p \in Procs : /\ pc[p] = "BulkExec" /\ pc'[p] = "idle"
                             /\ call[p].t = t /\ last'.result = OK
       /\ \A p \in Procs :
            (pc[p] = "BulkExec" /\ pc'[p] = "idle" /\ call[p].t = t) =>
              /\ PendingOf(t, p)' = {}
              /\ \A i \in DOMAIN Visible(t) :
                   i \in DOMAIN Visible(t)' /\ Visible(t)'[i] = Visible(t)[i]
              /\ IF last'.result = OK
                   THEN /\ DOMAIN Visible(t)' \ DOMAIN Visible(t) = PendingOf(t, p)
                        /\ Cardinality(PendingOf(t, p)) = call[p].done
                   ELSE Visible(t)' = Visible(t)]_vars

\* a bulk insert has returned an error after at least one of its INSERTs had
\* succeeded, and another one has committed a row
C17_Witness ==
  /\ last.op \in {"BulkInsert", "BulkCreate"}
  /\ last.result # OK /\ last.partial
  /\ \E i \in DOMAIN db[last.t] : db[last.t][i].tx = Committed

\* the requests the handlers answer
HandlerOps == {"createVehicle", "updateVehicle", "registerUser", "Generate"}

\* C18: a request that a write handler answers with failedValidationResponse
\* because its input does not validate (not because a stored plate or email
\* was met) has made no call of a model before that response.
C18_ValidationBeforePersistence ==
  /\ (/\ last.op \in HandlerOps \ {"Generate"}
      /\ last.response = "failedValidationResponse"
      /\ ~last.duplicate) => last.dbcalls = 0
  /\ (last.op = "Generate" /\ last.response = "failedValidationResponse") =>
       last.dbcalls = 0

\* C19: a create or update of a vehicle that meets its license plate on
\* another vehicle, and a registration that meets its email on a stored user,
\* is answered with the Conflict response (editConflictResponse) and changes
\* no row; no two stored vehicles share a license plate.
C19_DuplicateIsConflict ==
  [][/\ (last' # last /\ last'.op \in HandlerOps \ {"Generate"}
                      /\ last'.duplicate) =>
          (/\ last'.response = "editConflictResponse"
           /\ db' = db /\ nextId' = nextId)
     /\ \A i \in DOMAIN db'["vehicles"], j \in DOMAIN db'["vehicles"] :
          db'["vehicles"][i].license_plate = db'["vehicles"][j].license_plate
            => i = j]_vars

\* C20: when the INSERT of GenerateQRCode meets a stored row with the code the
\* call drew, the call does not return the uniqueness violation: it draws
\* again and retries.
C20_CollisionIsRetried ==
  [][\A p \in Procs :
       (/\ pc[p] = "Insert"
        /\ \E i \in DOMAIN QR : QR[i].code = call[p].code
        /\ pc'[p] # pc[p]) =>
          ~(last'.op = "Generate" /\ ErrorsIs(last'.result, ErrUniqueViolation))]_vars

\* C21: when a caller passes to Update the struct it read and the stored row
\* is no longer what it read (CheckIn, CheckOut, Cancel, UpdateStatus,
\* ExpireOverdue, SetOccupied, SetReserved or MarkAsViolation has changed it
\* meanwhile), the Update returns ErrEditConflict and writes nothing.
C21_UpdateAfterStatusChangeIsEditConflict ==
  [][\A p \in Procs :
       (/\ pc[p] = "read" /\ pc'[p] = "idle"
        /\ call[p].id \in DOMAIN db[call[p].t]
        /\ db[call[p].t][call[p].id] # call[p].entity) =>
          (last'.result = ErrEditConflict /\ db' = db)]_vars

\* C22: the step in which a GenerateQRCode call returns an error after its
\* DeactivateAllForUser (from its INSERT or from qrcode.WriteFile) leaves
\* qr_codes as it was: no row is stored whose code the caller was not given.
C22_FailedIssuanceLeavesNoRow ==
  [][\A p \in Procs :
       (/\ pc[p] = "Insert" /\ pc'[p] = "idle"
        /\ last'.op = "Generate" /\ last'.result # Nil) =>
          db'["qr_codes"] = db["qr_codes"]]_vars

\* C29: a step of a GenerateQRCode call for user u leaves every qr_codes row
\* of another user as it is, and with it the row GetByCode selects for that
\* row's code, so what VerifyQRCode returns for it; its DeactivateAllForUser
\* leaves no row of u active, whatever the row's vehicle.
C29_IssuanceTouchesOwnRowsOnly ==
  [][\A p \in Procs :
       pc'[p] # pc[p] =>
         LET u == IF pc[p] = "idle" THEN call'[p].user_id ELSE call[p].user_id
         IN /\ \A i \in DOMAIN QR :
                 QR[i].user_id # u =>
                   /\ i \in DOMAIN db'["qr_codes"]
                   /\ db'["qr_codes"][i] = QR[i]
                   /\ GetByCode(QR[i].code)' = GetByCode(QR[i].code)
            /\ (pc[p] = "idle" /\ pc'[p] = "Insert") =>
                 \A i \in DOMAIN db'["qr_codes"] :
                   db'["qr_codes"][i].user_id = u =>
                     ~db'["qr_codes"][i].is_active]_vars

\* user 1's code for one vehicle has been deactivated by the issuance for the
\* other vehicle, whose code is active, and user 2's code still verifies
C29_Witness ==
  /\ \E i \in DOMAIN QR, j \in DOMAIN QR :
       /\ QR[i].user_id = 1 /\ QR[j].user_id = 1
       /\ QR[i].vehicle_id # QR[j].vehicle_id
       /\ ~QR[i].is_active /\ QR[i].expires_at > now
       /\ QR[j].is_active
  /\ VerifyQRCode("k0").err = OK

\* C23: when no Insert, Update or SetAsDefault call is in progress, every user
\* has at most one vehicle with is_default = true.
C23_AtMostOneDefaultVehicle ==
  (\A p \in Procs : Idle(p)) =>
     \A u \in UserIds : Cardinality(DefaultsOf(u)) <= 1

\* C24: a SetAsDefault call that returns ErrRecordNotFound leaves the set of
\* default vehicles of its user as it was when the call began.
C24_NotFoundLeavesDefaults ==
  [][\A p \in Procs :
       (/\ pc[p] = "SetDefault" /\ pc'[p] = "idle"
        /\ last'.op = "SetAsDefault" /\ last'.result = ErrRecordNotFound) =>
          {i \in DOMAIN db'["vehicles"] :
             /\ db'["vehicles"][i].user_id = call[p].user_id
             /\ db'["vehicles"][i].is_default} = call[p].defaults]_vars

Res == db["reservations"]
TerminalStatuses == {ReservationStatusCompleted, ReservationStatusCancelled,
                     ReservationStatusExpired}

\* C25: CheckIn changes a row only from confirmed (to active), CheckOut only
\* from active (to completed), Cancel only from pending or confirmed (to
\* cancelled), ExpireOverdue only confirmed rows whose end_time is past (to
\* expired); otherwise the call returns ErrRecordNotFound (ExpireOverdue: nil)
\* and the row is unchanged; a completed, cancelled or expired row keeps its
\* status.
C25_LifecycleGuardedByStatus ==
  [][\A id \in DOMAIN Res :
       LET old  == Res[id]
           new  == db'["reservations"][id]
           mine == last'.op # "ExpireOverdue" /\ last'.id = id
           move(from, to) ==
             IF mine /\ old.status \in from
               THEN new.status = to /\ last'.result = OK
               ELSE new = old /\ (mine => last'.result = ErrRecordNotFound)
       IN /\ Returned("CheckIn") =>
               move({ReservationStatusConfirmed}, ReservationStatusActive)
          /\ Returned("CheckOut") =>
               move({ReservationStatusActive}, ReservationStatusCompleted)
          /\ Returned("Cancel") =>
               move({ReservationStatusPending, ReservationStatusConfirmed},
                    ReservationStatusCancelled)
          /\ Returned("ExpireOverdue") =>
               /\ last'.result = OK
               /\ IF old.status = ReservationStatusConfirmed /\ old.end_time < now'
                    THEN new.status = ReservationStatusExpired
                    ELSE new = old
          /\ old.status \in TerminalStatuses => new.status = old.status]_vars

\* a reservation was checked in and checked out, and the Cancel that followed
\* found no row
C25_Witness ==
  /\ last.op = "Cancel"
  /\ last.result = ErrRecordNotFound
  /\ last.id \in DOMAIN Res
  /\ Res[last.id].status = ReservationStatusCompleted
  /\ Res[last.id].actual_end_time # NULL

\* C26: of CheckIn, Cancel and ExpireOverdue on one confirmed reservation only
\* the first to run changes the row, to active, cancelled or expired; CheckIn
\* and Cancel on a row that is no longer confirmed return ErrRecordNotFound;
\* actual_start_time is set exactly when the status is active.
C26_OneOfThreeTakesEffect ==
  [][\A id \in DOMAIN Res :
       LET old == Res[id]
           new == db'["reservations"][id]
       IN /\ old.status # ReservationStatusConfirmed => new = old
          /\ new # old =>
               new.status \in {ReservationStatusActive, ReservationStatusCancelled,
                               ReservationStatusExpired}
          /\ ((Returned("CheckIn") \/ Returned("Cancel")) /\ last'.id = id) =>
               /\ new.status # ReservationStatusConfirmed
               /\ IF old.status = ReservationStatusConfirmed
                    THEN last'.result = OK /\ new # old
                    ELSE last'.result = ErrRecordNotFound
          /\ (new.actual_start_time # NULL) <=>
               (new.status = ReservationStatusActive)]_vars

\* one reservation was cancelled and a later CheckIn on it found no row, the
\* other was checked in
C26_Witness ==
  /\ last.op = "CheckIn" /\ last.result = ErrRecordNotFound
  /\ last.id \in DOMAIN Res
  /\ Res[last.id].status = ReservationStatusCancelled
  /\ Res[last.id].actual_start_time = NULL
  /\ \E i \in DOMAIN Res :
       Res[i].status = ReservationStatusActive /\ Res[i].actual_start_time # NULL

\* C27: a session that CheckOut has completed keeps status completed and its
\* check_out_time, total_duration and total_amount through every later
\* CheckOut and MarkAsViolation.
C27_CompletedSessionStays ==
  [][\A id \in DOMAIN db["parking_sessions"] :
       LET old == db["parking_sessions"][id]
           new == db'["parking_sessions"][id]
       IN old.status = SessionStatusCompleted =>
            /\ new.status = SessionStatusCompleted
            /\ new.check_out_time = old.check_out_time
            /\ new.total_duration = old.total_duration
            /\ new.total_amount = old.total_amount]_vars

\* a request of user u on vehicle id, through one of the four endpoints
VehicleRequest(p, u, id) ==
  \/ showVehicleHandler(p, u, id)
  \/ \E d \in PatchDefaults : updateVehicleGet(p, u, id, Absent, d, 1)
  \/ deleteVehicleGet(p, u, id)
  \/ setDefaultVehicleGet(p, u, id)

\* C28: a show, update, delete or set-default request of a user on a stored
\* vehicle of another user is answered with notPermittedResponse and goes no
\* further, and every step of a request in progress leaves the vehicles of all
\* users but its own as they are.
C28_ForeignVehicleUntouched ==
  [][/\ \A p \in Procs, u \in Requesters, id \in DOMAIN db["vehicles"] :
          (db["vehicles"][id].user_id # u /\ VehicleRequest(p, u, id)) =>
             /\ last'.response = "notPermittedResponse"
             /\ pc'[p] = "idle" /\ db' = db
     /\ db'["vehicles"] # db["vehicles"] =>
          \E p \in Procs :
            /\ pc[p] # "idle" /\ pc'[p] # pc[p]
            /\ \A i \in DOMAIN db["vehicles"] :
                 db["vehicles"][i].user_id # call[p].user_id =>
                   /\ i \in DOMAIN db'["vehicles"]
                   /\ db'["vehicles"][i] = db["vehicles"][i]]_vars

\* user 1 has deleted their own vehicle and a delete request on the vehicle of
\* user 2 was refused; that vehicle is stored as it was
C28_Witness ==
  /\ last.op = "deleteVehicle" /\ last.response = "notPermittedResponse"
  /\ DOMAIN db["vehicles"] = {2}
  /\ db["vehicles"][2] = [user_id |-> 2, license_plate |-> "P2",
                          is_default |-> TRUE, version |-> 1, updated_at |-> 1]

====
